---- MODULE Spec2Model ----
(***************************************************************************)
(* utorrentctl: the protocol session layer (utorrent/connection.py), the   *)
(* list cache synchronizer (Desktop._fetch_torrent_list in                 *)
(* utorrent/uTorrent.py) and the bencode codec (utorrent/__init__.py).     *)
(* Each part has its own specification over its own variables; the         *)
(* variables of the other parts keep their initial values.                 *)
(*                                                                         *)
(* A Connection owns one persistent HTTP connection, a security token and  *)
(* the Cookie header of its request object; the cookie jar is an attribute *)
(* of the class.  The program is single-threaded: one call (the token      *)
(* fetch of a constructor, or one do_action) is in progress at a time.     *)
(*                                                                         *)
(* Text is modelled as a sequence of symbols.  A symbol is either a word   *)
(* of unreserved characters (letters, digits, "_.-~"), which               *)
(* urllib.parse.quote(s, "") leaves alone, or one reserved character,      *)
(* which it replaces by its %XX escape.                                    *)
(***************************************************************************)
EXTENDS Integers, Sequences, FiniteSets, TLC

VARIABLES
    platform,        \* "posix" or "nt": fixes the values of the errno constants
    phase,           \* per instance: "none", "ready" (constructed), "failed" (__init__ raised)
    _token,          \* Connection._token, per instance
    _utorrent,       \* Connection._utorrent, per instance: the type of the attached dialect object
    _connection,     \* Connection._connection, per instance: "closed" or "open"
    _request,        \* Connection._request, per instance: its Cookie header and its data
    _cookies,        \* Connection._cookies: the class attribute, one jar for all instances
    pc,              \* position of the call in progress: "idle", "request", "body"
    call,            \* arguments of the call in progress (or of the last one), and the
                     \* cookies the instance had accumulated when it started
    mr,              \* locals of _make_request
    hist,            \* what happened in the call: attempts made, outcomes seen
    ret,             \* how the last call ended
    lastReq,         \* the request most recently put on the wire
    recv,            \* per instance: the cookies its own responses have set so far
    instances,       \* the Connection objects the caller creates in this run
    server,          \* the WebUI server's lists: what it holds now, and what it held
                     \* when it issued its latest cache identifier
    _list_cache_id,  \* Desktop._list_cache_id
    _torrent_cache,  \* Desktop._torrent_cache
    _rssfeed_cache,  \* Desktop._rssfeed_cache
    _rssfilter_cache,\* Desktop._rssfilter_cache
    fetch,           \* the latest _fetch_torrent_list: its request, its response, its end
    arg,             \* the argument of the function under study
    res              \* what the function made of it

connVars == <<platform, phase, _token, _utorrent, _connection, _request, _cookies,
              pc, call, mr, hist, ret, lastReq, recv, instances>>
cacheVars == <<server, _list_cache_id, _torrent_cache, _rssfeed_cache, _rssfilter_cache,
               fetch>>
fnVars == <<arg, res>>
vars == <<connVars, cacheVars, fnVars>>

----------------------------------------------------------------------------
(* Bounds of the model *)

\* attempts of one _make_request call the model follows (the loop itself has
\* no such bound once utserver_retry is set)
MaxAttempts == 6

(* The instances, the cookies and the tokens the environment can produce *)
Conns == {"c1", "c2"}
Tokens == {<<"T1">>, <<"T2">>}
Cookie1 == [name |-> <<"GUID">>, value |-> <<"a1">>]
Cookie2 == [name |-> <<"s", " ", "id">>, value |-> <<"x", ";", "y">>]
Cookies == {Cookie1, Cookie2}

None == "None"

(* a request without Cookie header *)
NoCookieHeader == {}

----------------------------------------------------------------------------
(* utorrent._url_quote: urllib.parse.quote( string, "" ) *)

Reserved == {" ", "&", "=", ";", "/", "?", "%"}

PctEncode(ch) ==
    CASE ch = " " -> "%20"
      [] ch = "&" -> "%26"
      [] ch = "=" -> "%3D"
      [] ch = ";" -> "%3B"
      [] ch = "/" -> "%2F"
      [] ch = "?" -> "%3F"
      [] ch = "%" -> "%25"
      [] OTHER    -> ch

_url_quote(string) == [i \in 1..Len(string) |-> PctEncode(string[i])]

----------------------------------------------------------------------------
(* Connection._retry_max *)
_retry_max == 3

(* errno constants tested by _make_request; their values are the platform's *)
WSAECONNABORTED == 10053
WSAECONNRESET == 10054
ECONNREFUSED == IF platform = "nt" THEN 10061 ELSE 111
ECONNRESET == IF platform = "nt" THEN 10054 ELSE 104
EHOSTUNREACH == IF platform = "nt" THEN 10065 ELSE 113
EPIPE == IF platform = "nt" THEN 10058 ELSE 32

(* errno values a socket.error can carry on the platform *)
SocketErrnos ==
    IF platform = "nt"
    THEN {WSAECONNABORTED, WSAECONNRESET, ECONNREFUSED, EHOSTUNREACH, EPIPE}
    ELSE {ECONNREFUSED, ECONNRESET, EHOSTUNREACH, EPIPE}

(* What one attempt (connection.request + getresponse) can produce *)
Statuses == {200, 206, 400, 401, 404, 500}

Outcomes ==
    [kind : {"response"}, status : Statuses, errno : {0}, setcookie : SUBSET Cookies]
    \cup [kind : {"BadStatusLine", "CannotSendRequest", "gaierror", "timeout"},
          status : {0}, errno : {0}, setcookie : {{}}]
    \cup [kind : {"socket.error"}, status : {0}, errno : SocketErrnos, setcookie : {{}}]

NoOutcome == [kind |-> None, status |-> 0, errno |-> 0, setcookie |-> {}]

(* Exceptions: the class, the taxonomy kind, the attempt that created it and,
   for the timeout message, the number it is formatted with *)
Exc(type, kind, at, tries) == [type |-> type, kind |-> kind, at |-> at, tries |-> tries]
NoExc == Exc(None, None, 0, 0)

----------------------------------------------------------------------------
(* Connection._make_request *)

(* max_retries = self._retry_max if retry else 1 *)
MaxRetries(retry) == IF retry THEN _retry_max ELSE 1

(* LoopCond with the bound off by one *)
LoopCondOffByOne(retries, max_retries, utserver_retry) ==
    retries <= max_retries \/ utserver_retry

(* while retries < max_retries or utserver_retry *)
LoopCond(retries, max_retries, utserver_retry) ==
    retries < max_retries \/ utserver_retry

(* Retry400 without the test of the dialect *)
Retry400AnyDialect(ut, utserver_retry) == ~utserver_retry

(* ( not self._utorrent or type( self._utorrent ) == LinuxServer ) and not utserver_retry *)
Retry400(ut, utserver_retry) ==
    (ut = None \/ ut = "LinuxServer") /\ ~utserver_retry

(* IsAbortedErrno with the refused connection among the retried faults *)
IsAbortedErrnoWithRefused(e) ==
    e = WSAECONNABORTED \/ e = WSAECONNRESET \/ e = ECONNREFUSED

(* e.errno == 10053 or e.errno == 10054 *)
IsAbortedErrno(e) == e = WSAECONNABORTED \/ e = WSAECONNRESET

(* e.errno == errno.ECONNREFUSED or e.errno == errno.ECONNRESET or errno == errno.EHOSTUNREACH:
   the last operand compares the module errno with a number and is False *)
IsFatalErrno(e) == e = ECONNREFUSED \/ e = ECONNRESET \/ FALSE

(* the Cookie header built from the jar:
   "; ".join( "{}={}".format( _url_quote( c.name ), _url_quote( c.value ) ) for c in self._cookies ) *)
CookiePair(c) == _url_quote(c.name) \o <<"=">> \o _url_quote(c.value)
CookieHeader(jar) == {CookiePair(c) : c \in jar}

(* One pass through the body of the while loop, for the outcome o of the
   request: how control leaves the pass and the new values of the locals.
   ctl: "return" (return resp), "raise" (an exception leaves the loop),
   "continue" (the continue of line 69), "next" (falls to retries += 1). *)
Pass(o, m, ut, at, conn) ==
    LET base == [ctl |-> "next", utserver_retry |-> m.utserver_retry, last_e |-> m.last_e,
                 exc |-> NoExc, conn |-> conn, sleep |-> FALSE]
    IN
    IF o.kind = "response" THEN
        IF o.status = 400 THEN
            LET e == Exc("uTorrentError", "InvalidRequest", at, 0) IN
            IF Retry400(ut, m.utserver_retry)
            THEN [base EXCEPT !.ctl = "continue", !.utserver_retry = TRUE, !.last_e = e]
            ELSE [base EXCEPT !.ctl = "raise", !.last_e = e, !.exc = e]
        ELSE IF o.status = 404 \/ o.status = 401 THEN
            [base EXCEPT !.ctl = "raise",
                         !.exc = Exc("uTorrentError",
                                     IF o.status = 404 THEN "NotFound" ELSE "Unauthorized", at, 0)]
        ELSE IF o.status # 200 /\ o.status # 206 THEN
            [base EXCEPT !.ctl = "raise", !.exc = Exc("uTorrentError", "UnexpectedStatus", at, 0)]
        ELSE [base EXCEPT !.ctl = "return"]
    ELSE IF o.kind \in {"CannotSendRequest", "BadStatusLine"} THEN
        [base EXCEPT !.last_e = Exc(o.kind, "transport", at, 0), !.conn = "closed"]
    ELSE IF o.kind = "gaierror" THEN
        [base EXCEPT !.ctl = "raise", !.exc = Exc("uTorrentError", "NetworkFatal", at, 0)]
    ELSE IF o.kind = "timeout" THEN
        [base EXCEPT !.last_e = Exc("uTorrentError", "Timeout", at, m.max_retries),
                     !.conn = "closed"]
    ELSE IF IsAbortedErrno(o.errno) THEN
        [base EXCEPT !.last_e = Exc("socket.error", "aborted", at, 0), !.conn = "closed",
                     !.sleep = TRUE]
    ELSE IF IsFatalErrno(o.errno) THEN
        [base EXCEPT !.ctl = "raise", !.exc = Exc("uTorrentError", "NetworkFatal", at, 0)]
    ELSE [base EXCEPT !.ctl = "raise", !.exc = Exc("socket.error", "raw", at, 0)]

(* CloseOnRaise without the close *)
CloseOnRaiseLeak(conn) == conn

(* except Exception as e: self._connection.close( ); raise e *)
CloseOnRaise(conn) == "closed"

----------------------------------------------------------------------------
(* Connection._action *)

RECURSIVE Join(_, _)
(* sep.join( parts ) *)
Join(parts, sep) ==
    IF parts = <<>> THEN <<>>
    ELSE IF Len(parts) = 1 THEN parts[1]
    ELSE parts[1] \o sep \o Join(Tail(parts), sep)

(* parameter values: a string or a bool, or a list of these *)
StrVal(s) == [t |-> "str", s |-> s]
BoolVal(b) == [t |-> "bool", b |-> b]
ListVal(items) == [t |-> "list", items |-> items]
IntVal(n) == [t |-> "int", n |-> n]

(* utorrent.is_list_type *)
is_list_type(v) == v.t = "list"

(* _action_val without the conversion of a bool to an int *)
_action_valNoInt(val) ==
    IF val.t = "bool" THEN (IF val.b THEN <<"True">> ELSE <<"False">>)
    ELSE IF val.t = "int" THEN <<ToString(val.n)>>
    ELSE val.s

(* Connection._action_val *)
_action_val(val) ==
    IF val.t = "bool" THEN (IF val.b THEN <<"1">> ELSE <<"0">>)
    ELSE IF val.t = "int" THEN <<ToString(val.n)>>
    ELSE val.s

(* "{}={}".format( _url_quote( str( k ) ), _url_quote( self._action_val( v ) ) ) *)
ArgPair(k, v) == _url_quote(k) \o <<"=">> \o _url_quote(_action_val(v))

RECURSIVE ParamArgs(_)
(* the loop over params.items( ): one pair per scalar, one per element of a list *)
ParamArgs(params) ==
    IF params = <<>> THEN <<>>
    ELSE LET k == params[1].k
             v == params[1].v
             here == IF is_list_type(v)
                     THEN [i \in 1..Len(v.items) |-> ArgPair(k, v.items[i])]
                     ELSE <<ArgPair(k, v)>>
         IN here \o ParamArgs(Tail(params))

(* _action with the token left out of the "list" branch as it is of "proxy" *)
_actionListWithoutToken(action, params, params_str, token) ==
    LET args == ParamArgs(params)
        pstr == IF params_str # <<>> THEN <<"&">> \o params_str ELSE <<>>
        tok == <<"token", "=">> \o token
    IN
    IF action = <<"list">> THEN
        <<"gui", "/">> \o <<"?">> \o Join(<<<<"list", "=", "1">>>> \o args, <<"&">>) \o pstr
    ELSE IF action = <<"proxy">> THEN
        <<"proxy">> \o <<"?">> \o Join(args, <<"&">>) \o pstr
    ELSE
        <<"gui", "/">> \o <<"?">>
            \o Join(<<tok, <<"action", "=">> \o _url_quote(action)>> \o args, <<"&">>) \o pstr

_action(action, params, params_str, token) ==
    LET args == ParamArgs(params)
        pstr == IF params_str # <<>> THEN <<"&">> \o params_str ELSE <<>>
        tok == <<"token", "=">> \o token
    IN
    IF action = <<"list">> THEN
        <<"gui", "/">> \o <<"?">> \o Join(<<tok, <<"list", "=", "1">>>> \o args, <<"&">>) \o pstr
    ELSE IF action = <<"proxy">> THEN
        <<"proxy">> \o <<"?">> \o Join(args, <<"&">>) \o pstr
    ELSE
        <<"gui", "/">> \o <<"?">>
            \o Join(<<tok, <<"action", "=">> \o _url_quote(action)>> \o args, <<"&">>) \o pstr

(* The calls the library makes (utorrent/uTorrent.py, Connection.utorrent):
   action, params, params_str, data, retry, save_buffer *)
Shape(action, params, params_str, data, retry, save) ==
    [action |-> action, params |-> params, params_str |-> params_str,
     data |-> data, retry |-> retry, save |-> save]

CallShapes ==
    { Shape(<<"list">>, <<[k |-> <<"cid">>, v |-> StrVal(<<"7">>)]>>, <<>>, None, TRUE, FALSE),
      Shape(<<"getversion">>, <<>>, <<>>, None, FALSE, FALSE),
      Shape(<<"proxy">>, <<[k |-> <<"id">>, v |-> StrVal(<<"HASH">>)],
                           [k |-> <<"file">>, v |-> StrVal(<<"0">>)]>>, <<>>, None, TRUE, TRUE),
      Shape(<<"add-file">>, <<>>, <<>>, "multipart", TRUE, FALSE),
      Shape(<<"setprops">>, <<>>, <<"s", "=", "label", "&", "v", "=", "x">>, None, TRUE, FALSE) }

TokenPage == <<"gui", "/", "token.html">>

----------------------------------------------------------------------------
(* Connection._get_data: the headers of the call *)

(* HeaderItems that forgets the headers added to the request object *)
HeaderItemsFresh(req) == [Cookie |-> NoCookieHeader]

(* { k: v for k, v in self._request.header_items( ) }: Authorization, and
   Cookie once add_header has set it *)
HeaderItems(req) == [Cookie |-> req.Cookie]

GetDataHeaders(req, data) ==
    [Cookie |-> HeaderItems(req).Cookie,
     ContentType |-> IF data # None THEN "multipart/form-data" ELSE None]

----------------------------------------------------------------------------
(* State *)

NoCall == [self |-> None, kind |-> None, action |-> <<>>, loc |-> <<>>,
           headers |-> [Cookie |-> NoCookieHeader, ContentType |-> None],
           data |-> None, retry |-> TRUE, save |-> FALSE, acc |-> {}, prev |-> None]

NewLocals(retry) ==
    [retries |-> 0, utserver_retry |-> FALSE, last_e |-> NoExc,
     max_retries |-> MaxRetries(retry)]

(* attempts: requests sent by the call; allBad: every one of them ended in a
   bad status line; badBefore: every one before the latest did; n400: how
   many were answered 400; last: the outcome of the latest one; resp: the attempt whose response _make_request returned;
   body: what reading that response gave; allTimeout: every attempt timed
   out; slept: the latest attempt was followed by time.sleep( 2 ) *)
NoBody == [kind |-> None, page |-> None]
NoHist == [attempts |-> 0, allBad |-> TRUE, badBefore |-> TRUE, n400 |-> 0,
           last |-> NoOutcome, resp |-> 0, body |-> NoBody,
           allTimeout |-> TRUE, slept |-> FALSE]

NoRet == [how |-> None, exc |-> NoExc, where |-> None, value |-> None]
Raised(e, where) == [how |-> "raise", exc |-> e, where |-> where, value |-> None]
Returned(v) == [how |-> "return", exc |-> NoExc, where |-> None, value |-> v]

NoReq == [conn |-> None, method |-> None, loc |-> <<>>,
          headers |-> [Cookie |-> NoCookieHeader, ContentType |-> None], body |-> None]

(* A cache attribute holds None or a dict from key to entity tuple *)
EmptyDict == [k \in {} |-> <<>>]
NoDict == [isNone |-> TRUE, d |-> EmptyDict]
Dict(f) == [isNone |-> FALSE, d |-> f]

(* No _fetch_torrent_list has run.  Of a fetch: held, the identifier held
   when it started; req, its do_action call; out, the response (against the
   difference-keeping server only its identifier is recorded); ok and exc,
   how it ended; before, the caches when it started (recorded where a
   single fetch is studied); deltas, how many delta fetches have followed
   the last full one; fresh, the server's lists have not changed since;
   calls, how many times it called do_action. *)
NoFetch == [done |-> FALSE, held |-> 0, req |-> [action |-> <<>>, params |-> <<>>],
            out |-> [torrentc |-> 0], ok |-> FALSE, exc |-> "None", before |-> <<>>,
            deltas |-> 0, fresh |-> FALSE, calls |-> 0]

(* The class attributes of Desktop: no list fetched, no server looked at *)
CacheIdle ==
    /\ server = None
    /\ _list_cache_id = 0
    /\ _torrent_cache = NoDict
    /\ _rssfeed_cache = NoDict
    /\ _rssfilter_cache = NoDict
    /\ fetch = NoFetch
NoValue == [t |-> "none"]
FnIdle ==
    /\ arg = NoValue
    /\ res = NoValue

(* The attributes of the class Connection, before any constructor has run *)
ConnInit ==
    /\ phase = [c \in Conns |-> "none"]
    /\ _token = [c \in Conns |-> <<>>]
    /\ _utorrent = [c \in Conns |-> None]
    /\ _connection = [c \in Conns |-> None]
    /\ _request = [c \in Conns |-> [Cookie |-> NoCookieHeader, data |-> None]]
    /\ _cookies = {}
    /\ pc = "idle"
    /\ call = NoCall
    /\ mr = NewLocals(TRUE)
    /\ hist = NoHist
    /\ ret = NoRet
    /\ lastReq = NoReq
    /\ recv = [c \in Conns |-> {}]

Init ==
    /\ platform \in {"posix", "nt"}
    /\ instances = {"c1"}
    /\ ConnInit
    /\ CacheIdle
    /\ FnIdle

----------------------------------------------------------------------------
(* Connection.__init__: a new connection and request object, then
   _fetch_token( ), which starts _get_data( "gui/token.html" ) *)
Construct(c) ==
    /\ pc = "idle"
    /\ c \in instances
    /\ phase[c] = "none"
    /\ _connection' = [_connection EXCEPT ![c] = "closed"]
    /\ _request' = [_request EXCEPT ![c] = [Cookie |-> NoCookieHeader, data |-> None]]
    /\ call' = [self |-> c, kind |-> "token", action |-> <<>>, loc |-> TokenPage,
                headers |-> GetDataHeaders(_request'[c], None),
                data |-> None, retry |-> TRUE, save |-> FALSE, acc |-> {}, prev |-> None]
    /\ mr' = NewLocals(TRUE)
    /\ hist' = NoHist
    /\ ret' = NoRet
    /\ pc' = "request"
    /\ lastReq' = NoReq
    /\ UNCHANGED <<platform, phase, _token, _utorrent, _cookies, recv, instances>>
    /\ UNCHANGED <<cacheVars, fnVars>>

(* Connection.do_action up to the call of _make_request: _action builds the
   location, _get_data the headers *)
DoAction(c, sh) ==
    /\ pc = "idle"
    /\ phase[c] = "ready"
    /\ call' = [self |-> c, kind |-> "action", action |-> sh.action,
                loc |-> _action(sh.action, sh.params, sh.params_str, _token[c]),
                headers |-> GetDataHeaders(_request[c], sh.data),
                data |-> sh.data, retry |-> sh.retry, save |-> sh.save, acc |-> recv[c],
                prev |-> IF sh.action = <<"list">> THEN _request[c].data ELSE None]
    /\ mr' = NewLocals(sh.retry)
    /\ hist' = NoHist
    /\ ret' = NoRet
    /\ pc' = "request"
    /\ lastReq' = NoReq
    /\ UNCHANGED <<platform, phase, _token, _utorrent, _connection, _request, _cookies,
                   recv, instances>>
    /\ UNCHANGED <<cacheVars, fnVars>>

(* Connection.utorrent( api ) with api given: the constructor of the dialect
   class stores the object in connection._utorrent (Desktop.__init__).  The
   record of the previous call is dropped. *)
Attach(c, api) ==
    /\ pc = "idle"
    /\ phase[c] = "ready"
    /\ _utorrent' = [_utorrent EXCEPT ![c] = api]
    /\ call' = NoCall
    /\ mr' = NewLocals(TRUE)
    /\ hist' = NoHist
    /\ ret' = NoRet
    /\ lastReq' = NoReq
    /\ UNCHANGED <<platform, phase, _token, _connection, _request, _cookies,
                   pc, recv, instances>>
    /\ UNCHANGED <<cacheVars, fnVars>>

(* a session that a failed call sends back to its construction *)
PhaseAfterRaiseRefetch(kind, ph) == IF kind = "token" THEN "failed" ELSE "none"

(* How a call that ends by raising leaves the instance: an exception out of
   _fetch_token makes __init__ fail *)
PhaseAfterRaise(kind, ph) == IF kind = "token" THEN "failed" ELSE ph

(* extract_cookies applied to every response, whatever its status *)
extract_cookiesAnyStatus(jar, o, ctl) ==
    IF o.kind = "response" THEN jar \cup o.setcookie ELSE jar

(* self._cookies.extract_cookies( resp, self._request ): the statement stands
   after the status checks, so it is reached only by the pass that returns *)
extract_cookies(jar, o, ctl) ==
    IF ctl = "return" THEN jar \cup o.setcookie ELSE jar

(* an assignment made only when the call has data *)
SetDataIfGiven(held, data) == IF data # None THEN data ELSE held

(* self._request.data = data: the data the request object holds afterwards,
   given the data it held *)
SetData(held, data) == data

(* self._request.get_method( ): POST when the request object holds data *)
get_method(data) == IF data # None THEN "POST" ELSE "GET"

(* One iteration of the while loop of _make_request, with the outcome o of
   connection.request + getresponse; when the loop ends, the end of
   _make_request as well *)
Request(o) ==
    /\ pc = "request"
    /\ hist.attempts < MaxAttempts
    /\ LET c == call.self
           at == hist.attempts + 1
           p == Pass(o, mr, _utorrent[c], at, "open")
           retries2 == IF p.ctl = "next" THEN mr.retries + 1 ELSE mr.retries
           again == /\ p.ctl \in {"continue", "next"}
                    /\ LoopCond(retries2, mr.max_retries, p.utserver_retry)
           \* the exception that leaves the try block, if any
           exc == IF p.ctl = "raise" THEN p.exc
                  ELSE IF p.ctl \in {"continue", "next"} /\ ~again THEN p.last_e
                  ELSE NoExc
           jar == extract_cookies(_cookies, o, p.ctl)
           reqData == SetData(_request[c].data, call.data)
       IN
       /\ lastReq' = [conn |-> c, method |-> get_method(reqData),
                      loc |-> call.loc, headers |-> call.headers, body |-> reqData]
       /\ hist' = [attempts |-> at,
                   allBad |-> hist.allBad /\ o.kind = "BadStatusLine",
                   badBefore |-> hist.allBad,
                   n400 |-> hist.n400 + (IF o.kind = "response" /\ o.status = 400 THEN 1 ELSE 0),
                   last |-> o,
                   resp |-> IF p.ctl = "return" THEN at ELSE 0,
                   body |-> NoBody,
                   allTimeout |-> hist.allTimeout /\ o.kind = "timeout",
                   slept |-> p.sleep]
       /\ mr' = [mr EXCEPT !.retries = retries2, !.utserver_retry = p.utserver_retry,
                           !.last_e = p.last_e]
       /\ _cookies' = jar
       /\ recv' = [recv EXCEPT ![c] = extract_cookies(@, o, p.ctl)]
       /\ _request' = [_request EXCEPT
                         ![c] = [Cookie |-> IF p.ctl = "return" /\ Cardinality(jar) > 0
                                            THEN CookieHeader(jar) ELSE @.Cookie,
                                 data |-> reqData]]
       /\ IF p.ctl = "return" THEN
              /\ pc' = "body"
              /\ _connection' = [_connection EXCEPT ![c] = p.conn]
              /\ UNCHANGED <<ret, phase>>
          ELSE IF again THEN
              /\ pc' = "request"
              /\ _connection' = [_connection EXCEPT ![c] = p.conn]
              /\ UNCHANGED <<ret, phase>>
          ELSE IF exc # NoExc THEN
              /\ pc' = "idle"
              /\ _connection' = [_connection EXCEPT ![c] = CloseOnRaise(p.conn)]
              /\ ret' = Raised(exc, "_make_request")
              /\ phase' = [phase EXCEPT ![c] = PhaseAfterRaise(call.kind, @)]
          ELSE \* return None: _get_data then fails on resp.read
              /\ pc' = "idle"
              /\ _connection' = [_connection EXCEPT ![c] = p.conn]
              /\ ret' = Raised(Exc("AttributeError", "raw", at, 0), "_get_data")
              /\ phase' = [phase EXCEPT ![c] = PhaseAfterRaise(call.kind, @)]
    /\ UNCHANGED <<platform, _token, _utorrent, call, instances>>
    /\ UNCHANGED <<cacheVars, fnVars>>

----------------------------------------------------------------------------
(* The rest of _get_data, and what its callers do with the result *)

(* token pages: with the <div id='token'> fragment around a token, or without *)
Pages == [div : {TRUE}, token : Tokens] \cup [div : {FALSE}, token : {<<>>}]

(* What reading the body of a response can produce.  For a text response:
   the text, or a failure of resp.read( ) or of decode( "utf8" ).  For a
   streamed one: the end of the stream, or a failure of resp.read( ), of
   save_buffer.write( ) or of progress_cb( ). *)
BodyOutcomes(kind, save) ==
    IF save THEN [kind : {"streamed", "read_error", "write_error", "cb_error"}, page : {None}]
    ELSE IF kind = "token" THEN
        [kind : {"text"}, page : Pages] \cup [kind : {"read_error", "decode_error"}, page : {None}]
    ELSE [kind : {"text"}, page : {"json", "badjson", ""}]
         \cup [kind : {"read_error", "decode_error"}, page : {None}]

BodyExc(b, at) ==
    CASE b.kind = "read_error" -> Exc("socket.error", "raw", at, 0)
      [] b.kind = "decode_error" -> Exc("UnicodeDecodeError", "raw", at, 0)
      [] b.kind = "write_error" -> Exc("IOError", "raw", at, 0)
      [] b.kind = "cb_error" -> Exc("CallbackError", "raw", at, 0)
      [] OTHER -> NoExc

(* _get_data after _make_request has returned resp: self._connection.close( )
   is reached only when the body has been read, decoded and written *)
ConnAfterBody(b, conn) ==
    IF b.kind \in {"text", "streamed"} THEN "closed" ELSE conn

(* re.search( "<div .*?id='token'.*?>(.+?)</div>", data ) *)
TokenMatch(page) == page.div

(* _fetch_token without the check of the match *)
_fetch_tokenUnchecked(page, old) == [ok |-> TRUE, token |-> page.token]

(* _fetch_token, given the text of the token page: does __init__ succeed,
   and with which token *)
_fetch_token(page, old) ==
    IF TokenMatch(page)
    THEN [ok |-> TRUE, token |-> page.token]
    ELSE [ok |-> FALSE, token |-> old]

ReadBody(b) ==
    /\ pc = "body"
    /\ b \in BodyOutcomes(call.kind, call.save)
    /\ LET c == call.self
           e == BodyExc(b, hist.attempts)
       IN
       /\ _connection' = [_connection EXCEPT ![c] = ConnAfterBody(b, @)]
       /\ pc' = "idle"
       /\ IF e # NoExc THEN
              /\ ret' = Raised(e, "_get_data")
              /\ phase' = [phase EXCEPT ![c] = PhaseAfterRaise(call.kind, @)]
              /\ UNCHANGED _token
          ELSE IF call.kind = "token" THEN
              LET f == _fetch_token(b.page, _token[c]) IN
              /\ _token' = [_token EXCEPT ![c] = f.token]
              /\ phase' = [phase EXCEPT ![c] = IF f.ok THEN "ready" ELSE "failed"]
              /\ ret' = IF f.ok THEN Returned(None)
                        ELSE Raised(Exc("uTorrentError", "TokenUnavailable", hist.attempts, 0),
                                    "_fetch_token")
          ELSE \* do_action: json.loads( res ) if res else ""
              /\ ret' = IF b.kind = "streamed" \/ b.page = "" THEN Returned("")
                        ELSE IF b.page = "badjson"
                        THEN Raised(Exc("ValueError", "raw", hist.attempts, 0), "do_action")
                        ELSE Returned("json")
              /\ UNCHANGED <<phase, _token>>
       /\ hist' = [hist EXCEPT !.body = b]
    /\ UNCHANGED <<platform, _utorrent, _request, _cookies, call, mr, lastReq, recv,
                   instances>>
    /\ UNCHANGED <<cacheVars, fnVars>>

----------------------------------------------------------------------------
Dialects == {"Desktop", "Falcon", "LinuxServer"}

Next ==
    \/ \E c \in Conns : Construct(c)
    \/ \E c \in Conns, sh \in CallShapes : DoAction(c, sh)
    \/ \E c \in Conns, api \in Dialects : Attach(c, api)
    \/ \E o \in Outcomes : Request(o)
    \/ \E b \in BodyOutcomes(call.kind, call.save) : ReadBody(b)

Spec == Init /\ [][Next]_vars

----------------------------------------------------------------------------
(* Two Connection objects in one process, on one platform, with no dialect
   object attached.  The server answers 200, with or without cookies, or
   401, or breaks the status line; bodies arrive whole. *)
TwoShapes == {sh \in CallShapes : sh.action = <<"getversion">>}
TwoOutcomes ==
    {o \in Outcomes : \/ o.kind = "response" /\ o.status \in {200, 401}
                      \/ o.kind = "BadStatusLine"}
TwoBodies(kind, save) == {b \in BodyOutcomes(kind, save) : b.kind = "text"}

InitTwo ==
    /\ platform = "posix"
    /\ instances = Conns
    /\ ConnInit
    /\ CacheIdle
    /\ FnIdle

NextTwo ==
    \/ \E c \in Conns : Construct(c)
    \/ \E c \in Conns, sh \in TwoShapes : DoAction(c, sh)
    \/ \E o \in TwoOutcomes : Request(o)
    \/ \E b \in TwoBodies(call.kind, call.save) : ReadBody(b)

SpecTwo == InitTwo /\ [][NextTwo]_vars

----------------------------------------------------------------------------
(* The list cache synchronizer: Desktop._fetch_torrent_list *)

(* Keys and fields of the entities of each kind.  An entity is the tuple
   <<key, field>>: its first element is the key, as t[0] is in the code. *)
MaxCid == 2
CidValues == 0..MaxCid
TorrentKeys == {"h1", "h2"}
FeedKeys == {"feed1"}
FilterKeys == {"filter1"}
Fields == {"a", "b"}
DictsOver(keys, fields) ==
    UNION {[D -> fields] : D \in SUBSET keys}
EntityDict(f) == [k \in DOMAIN f |-> <<k, f[k]>>]
TorrentDicts == {EntityDict(f) : f \in DictsOver(TorrentKeys, Fields)}
FeedDicts == {EntityDict(f) : f \in DictsOver(FeedKeys, {"a"})}
FilterDicts == {EntityDict(f) : f \in DictsOver(FilterKeys, {"a"})}
Lists == [torrents : TorrentDicts, rssfeeds : FeedDicts, rssfilters : FilterDicts]

(* an insertion that leaves an entity already cached as it is *)
UpsertKeepOld(c, t) == [x \in DOMAIN c \cup {t[1]} |-> IF x \in DOMAIN c THEN c[x] ELSE t]

(* del cache[k] and cache[t[0]] = t *)
DelKey(c, k) == [x \in DOMAIN c \ {k} |-> c[x]]
Upsert(c, t) == [x \in DOMAIN c \cup {t[1]} |-> IF x = t[1] THEN t ELSE c[x]]

Done(c) == [ok |-> TRUE, exc |-> None, c |-> c]
Failed(c, exc) == [ok |-> FALSE, exc |-> exc, c |-> c]

RECURSIVE DelAll(_, _)
(* for t in removed: del cache[t] -- KeyError for a key the cache lacks,
   TypeError when the cache is None; what was deleted before stays deleted *)
DelAll(c, removed) ==
    IF removed = <<>> THEN Done(c)
    ELSE IF c.isNone THEN Failed(c, "TypeError")
    ELSE IF Head(removed) \notin DOMAIN c.d THEN Failed(c, "KeyError")
    ELSE DelAll(Dict(DelKey(c.d, Head(removed))), Tail(removed))

RECURSIVE AddAll(_, _)
(* for t in added: cache[t[0]] = t *)
AddAll(c, added) ==
    IF added = <<>> THEN Done(c)
    ELSE IF c.isNone THEN Failed(c, "TypeError")
    ELSE AddAll(Dict(Upsert(c.d, Head(added))), Tail(added))

(* the two loops of one kind with the insertions first *)
ApplyKindAddFirst(c, out, m, p) ==
    IF p \notin DOMAIN out THEN Failed(c, "KeyError")
    ELSE LET r == AddAll(c, out[p]) IN
         IF ~r.ok THEN r
         ELSE IF m \notin DOMAIN out THEN Failed(r.c, "KeyError")
         ELSE DelAll(r.c, out[m])

(* The two loops of one kind in the delta branch: out[m] is the array of
   removed keys, out[p] the array of added entities *)
ApplyKind(c, out, m, p) ==
    IF m \notin DOMAIN out THEN Failed(c, "KeyError")
    ELSE LET r == DelAll(c, out[m]) IN
         IF ~r.ok THEN r
         ELSE IF p \notin DOMAIN out THEN Failed(r.c, "KeyError")
         ELSE AddAll(r.c, out[p])

(* { t[0]: t for t in array } *)
FromArray(array) == AddAll(Dict(EmptyDict), array).c

(* one array of the full branch: if key in out: cache = { ... } *)
SetKind(c, out, key) == IF key \in DOMAIN out THEN FromArray(out[key]) ELSE c

(* the request of _fetch_torrent_list that always asks for the full list *)
ListRequestAlwaysFull(id) == [action |-> <<"list">>, params |-> <<>>]

(* The do_action call of _fetch_torrent_list for the held identifier id:
   do_action( "list", { "cid": id } ) if id is truthy, else do_action( "list" ) *)
ListRequest(id) ==
    IF id # 0
    THEN [action |-> <<"list">>, params |-> <<[k |-> <<"cid">>, v |-> IntVal(id)]>>]
    ELSE [action |-> <<"list">>, params |-> <<>>]

(* The rest of _fetch_torrent_list, given the decoded response out: the new
   values of the four attributes.  An exception leaves the attributes as
   the statements before it made them. *)
_fetch_torrent_list(id, tc, fc, rc, out) ==
    IF id # 0 THEN
        LET t == ApplyKind(tc, out, "torrentm", "torrentp")
            f == IF t.ok THEN ApplyKind(fc, out, "rssfeedm", "rssfeedp") ELSE Failed(fc, t.exc)
            r == IF f.ok THEN ApplyKind(rc, out, "rssfilterm", "rssfilterp")
                 ELSE Failed(rc, f.exc)
            ok == r.ok /\ "torrentc" \in DOMAIN out
        IN [ok |-> ok, exc |-> IF ok THEN None ELSE IF r.ok THEN "KeyError" ELSE r.exc,
            id |-> IF ok THEN out.torrentc ELSE id,
            torrents |-> t.c, rssfeeds |-> f.c, rssfilters |-> r.c]
    ELSE
        LET ok == "torrentc" \in DOMAIN out
        IN [ok |-> ok, exc |-> IF ok THEN None ELSE "KeyError",
            id |-> IF ok THEN out.torrentc ELSE id,
            torrents |-> SetKind(tc, out, "torrents"),
            rssfeeds |-> SetKind(fc, out, "rssfeeds"),
            rssfilters |-> SetKind(rc, out, "rssfilters")]

----------------------------------------------------------------------------
(* A WebUI server that keeps, with the cache identifier it issued last, the
   lists it held at that moment, and answers a request that carries this
   identifier with the difference to its present lists. *)
MaxDeltas == 2
Kinds == {"torrents", "rssfeeds", "rssfilters"}
KeysOf(kind) ==
    CASE kind = "torrents" -> TorrentKeys
      [] kind = "rssfeeds" -> FeedKeys
      [] kind = "rssfilters" -> FilterKeys
FieldsOf(kind) == IF kind = "torrents" THEN Fields ELSE {"a"}
EmptyLists == [torrents |-> EmptyDict, rssfeeds |-> EmptyDict, rssfilters |-> EmptyDict]

RECURSIVE SetToSeq(_)
SetToSeq(S) ==
    IF S = {} THEN <<>>
    ELSE LET x == CHOOSE x \in S : TRUE IN <<x>> \o SetToSeq(S \ {x})

(* the entities of d with the keys K, as a response array *)
EntityArray(d, K) == LET ks == SetToSeq(K) IN [i \in 1..Len(ks) |-> d[ks[i]]]
Gone(at, now) == DOMAIN at \ DOMAIN now
Changed(at, now) == {k \in DOMAIN now : k \notin DOMAIN at \/ at[k] # now[k]}

FullAnswer(now, cid) ==
    [torrents |-> EntityArray(now.torrents, DOMAIN now.torrents),
     rssfeeds |-> EntityArray(now.rssfeeds, DOMAIN now.rssfeeds),
     rssfilters |-> EntityArray(now.rssfilters, DOMAIN now.rssfilters),
     torrentc |-> cid]

DeltaAnswer(at, now, cid) ==
    [torrentm |-> SetToSeq(Gone(at.torrents, now.torrents)),
     torrentp |-> EntityArray(now.torrents, Changed(at.torrents, now.torrents)),
     rssfeedm |-> SetToSeq(Gone(at.rssfeeds, now.rssfeeds)),
     rssfeedp |-> EntityArray(now.rssfeeds, Changed(at.rssfeeds, now.rssfeeds)),
     rssfilterm |-> SetToSeq(Gone(at.rssfilters, now.rssfilters)),
     rssfilterp |-> EntityArray(now.rssfilters, Changed(at.rssfilters, now.rssfilters)),
     torrentc |-> cid]

(* the answer to the list request req, issued with the new identifier cid *)
ServerAnswer(srv, req, cid) ==
    IF req.params = <<>> THEN FullAnswer(srv.now, cid)
    ELSE DeltaAnswer(srv.at, srv.now, cid)

SyncInit ==
    /\ platform = "posix"
    /\ instances = {}
    /\ ConnInit
    /\ FnIdle
    /\ server \in [now : Lists, at : {EmptyLists}, cid : {0}]
    /\ _list_cache_id = 0
    /\ _torrent_cache = NoDict
    /\ _rssfeed_cache = NoDict
    /\ _rssfilter_cache = NoDict
    /\ fetch = NoFetch

(* the user or a peer adds or changes an entity on the server *)
ServerChange(kind, key, field) ==
    /\ key \in KeysOf(kind) /\ field \in FieldsOf(kind)
    /\ server.now[kind] # Upsert(server.now[kind], <<key, field>>)
    /\ server' = [server EXCEPT !.now[kind] = Upsert(@, <<key, field>>)]
    /\ fetch' = [fetch EXCEPT !.fresh = FALSE]
    /\ UNCHANGED <<_list_cache_id, _torrent_cache, _rssfeed_cache, _rssfilter_cache>>
    /\ UNCHANGED <<connVars, fnVars>>

(* an entity disappears from the server *)
ServerRemove(kind, key) ==
    /\ key \in DOMAIN server.now[kind]
    /\ server' = [server EXCEPT !.now[kind] = DelKey(@, key)]
    /\ fetch' = [fetch EXCEPT !.fresh = FALSE]
    /\ UNCHANGED <<_list_cache_id, _torrent_cache, _rssfeed_cache, _rssfilter_cache>>
    /\ UNCHANGED <<connVars, fnVars>>

(* Desktop._fetch_torrent_list against this server, which issues cid *)
Fetch(cid) ==
    LET req == ListRequest(_list_cache_id)
        out == ServerAnswer(server, req, cid)
        r == _fetch_torrent_list(_list_cache_id, _torrent_cache, _rssfeed_cache,
                                 _rssfilter_cache, out)
    IN
    /\ req.params # <<>> => req.params[1].v.n = server.cid
    /\ _list_cache_id' = r.id
    /\ _torrent_cache' = r.torrents
    /\ _rssfeed_cache' = r.rssfeeds
    /\ _rssfilter_cache' = r.rssfilters
    /\ server' = [server EXCEPT !.at = server.now, !.cid = cid]
    /\ fetch' = [done |-> TRUE, held |-> _list_cache_id, req |-> req,
                 out |-> [torrentc |-> out.torrentc], ok |-> r.ok, exc |-> r.exc,
                 before |-> <<>>,
                 deltas |-> IF req.params = <<>> THEN 0
                            ELSE IF fetch.deltas < MaxDeltas THEN fetch.deltas + 1
                            ELSE fetch.deltas,
                 fresh |-> TRUE, calls |-> 1]
    /\ UNCHANGED <<connVars, fnVars>>

SyncNext ==
    \/ \E kind \in Kinds, key \in TorrentKeys \cup FeedKeys \cup FilterKeys, field \in Fields :
           ServerChange(kind, key, field)
    \/ \E kind \in Kinds, key \in TorrentKeys \cup FeedKeys \cup FilterKeys :
           ServerRemove(kind, key)
    \/ \E cid \in CidValues : Fetch(cid)

SpecSync == SyncInit /\ [][SyncNext]_vars

----------------------------------------------------------------------------
(* One _fetch_torrent_list against a server that may answer anything of the
   right shape: arrays of removed keys and of added entities of up to
   MaxArray elements for the torrents, with repetitions and in any order *)
MaxArray == 2
SeqsUpTo(S, n) == UNION {[1..k -> S] : k \in 0..n}
TorrentTuples == {<<k, f>> : k \in TorrentKeys, f \in Fields}
RssParts ==
    { [rssfeedm |-> <<>>, rssfeedp |-> <<>>, rssfilterm |-> <<>>, rssfilterp |-> <<>>],
      [rssfeedm |-> <<"feed1">>, rssfeedp |-> << <<"feed1", "a">> >>,
       rssfilterm |-> <<>>, rssfilterp |-> <<>>],
      [rssfeedm |-> <<>>, rssfeedp |-> <<>>,
       rssfilterm |-> <<"filter1">>, rssfilterp |-> <<>>] }

DeltaResponses ==
    {[torrentm |-> m, torrentp |-> a,
      rssfeedm |-> r.rssfeedm, rssfeedp |-> r.rssfeedp,
      rssfilterm |-> r.rssfilterm, rssfilterp |-> r.rssfilterp, torrentc |-> c] :
        m \in SeqsUpTo(TorrentKeys, MaxArray), a \in SeqsUpTo(TorrentTuples, MaxArray),
        r \in RssParts, c \in {0, MaxCid}}

FullResponses ==
    {[torrents |-> a, rssfeeds |-> r.rssfeedp, rssfilters |-> r.rssfilterp, torrentc |-> c] :
        a \in SeqsUpTo(TorrentTuples, MaxArray), r \in RssParts, c \in {0, MaxCid}}
    \cup {[torrents |-> a, torrentc |-> c] :
        a \in SeqsUpTo(TorrentTuples, MaxArray), c \in {0, MaxCid}}

(* answers that lack the cache identifier, or an array of the delta *)
LackingResponses(req) ==
    IF req.params = <<>>
    THEN {[torrents |-> a] : a \in SeqsUpTo(TorrentTuples, 1)}
    ELSE {[torrentm |-> m, torrentp |-> a, rssfeedm |-> <<>>, rssfeedp |-> <<>>,
           rssfilterm |-> <<>>, rssfilterp |-> <<>>] :
             m \in SeqsUpTo(TorrentKeys, 1), a \in SeqsUpTo(TorrentTuples, 1)}
         \cup {[torrentm |-> m, torrentc |-> MaxCid] : m \in SeqsUpTo(TorrentKeys, 1)}

ListResponses(req) ==
    (IF req.params = <<>> THEN FullResponses ELSE DeltaResponses) \cup LackingResponses(req)

(* before the fetch: nothing fetched yet, or caches left by earlier fetches *)
OnceInit ==
    /\ platform = "posix"
    /\ instances = {}
    /\ ConnInit
    /\ FnIdle
    /\ server = None
    /\ fetch = NoFetch
    /\ \/ /\ _list_cache_id = 0
          /\ _torrent_cache = NoDict /\ _rssfeed_cache = NoDict /\ _rssfilter_cache = NoDict
       \/ /\ _list_cache_id \in {0, 1}
          /\ \E l \in Lists :
                /\ _torrent_cache = Dict(l.torrents)
                /\ _rssfeed_cache = Dict(l.rssfeeds)
                /\ _rssfilter_cache = Dict(l.rssfilters)

(* Desktop._fetch_torrent_list, do_action returning out *)
FetchOnce(out) ==
    LET req == ListRequest(_list_cache_id)
        r == _fetch_torrent_list(_list_cache_id, _torrent_cache, _rssfeed_cache,
                                 _rssfilter_cache, out)
    IN
    /\ ~fetch.done
    /\ out \in ListResponses(req)
    /\ _list_cache_id' = r.id
    /\ _torrent_cache' = r.torrents
    /\ _rssfeed_cache' = r.rssfeeds
    /\ _rssfilter_cache' = r.rssfilters
    /\ fetch' = [done |-> TRUE, held |-> _list_cache_id, req |-> req, out |-> out,
                 ok |-> r.ok, exc |-> r.exc,
                 before |-> <<_torrent_cache, _rssfeed_cache, _rssfilter_cache>>,
                 deltas |-> IF req.params = <<>> THEN 0 ELSE 1, fresh |-> TRUE,
                 calls |-> 1]
    /\ UNCHANGED <<server, connVars, fnVars>>

(* the answers the one fetch can still get *)
PendingResponses ==
    IF fetch.done THEN {} ELSE ListResponses(ListRequest(_list_cache_id))

(* the exceptions that Connection.do_action can end in *)
TransportErrors ==
    {"uTorrentError", "BadStatusLine", "CannotSendRequest", "socket.error", "ValueError"}

(* a fetch that answers a failed request by forgetting what it holds *)
RaisedInFetchResync(id, tc, fc, rc, e) ==
    [ok |-> FALSE, exc |-> e, id |-> 0, torrents |-> NoDict, rssfeeds |-> NoDict,
     rssfilters |-> NoDict]

(* _fetch_torrent_list when do_action raises e (line 212 or 229): no
   statement after the call runs, and neither _fetch_torrent_list nor
   torrent_list (line 240) catches the exception *)
RaisedInFetch(id, tc, fc, rc, e) ==
    [ok |-> FALSE, exc |-> e, id |-> id, torrents |-> tc, rssfeeds |-> fc, rssfilters |-> rc]

(* torrent_list( ) whose do_action raises e *)
FetchRaises(e) ==
    LET req == ListRequest(_list_cache_id)
        r == RaisedInFetch(_list_cache_id, _torrent_cache, _rssfeed_cache,
                           _rssfilter_cache, e)
    IN
    /\ ~fetch.done
    /\ _list_cache_id' = r.id
    /\ _torrent_cache' = r.torrents
    /\ _rssfeed_cache' = r.rssfeeds
    /\ _rssfilter_cache' = r.rssfilters
    /\ fetch' = [done |-> TRUE, held |-> _list_cache_id, req |-> req, out |-> [raised |-> e],
                 ok |-> r.ok, exc |-> r.exc,
                 before |-> <<_torrent_cache, _rssfeed_cache, _rssfilter_cache>>,
                 deltas |-> 0, fresh |-> FALSE, calls |-> 1]
    /\ UNCHANGED <<server, connVars, fnVars>>

OnceNext ==
    \/ \E out \in PendingResponses : FetchOnce(out)
    \/ \E e \in TransportErrors : FetchRaises(e)

SpecOnce == OnceInit /\ [][OnceNext]_vars

----------------------------------------------------------------------------
(* Connection.do_action: json.loads( res, object_pairs_hook = obj_hook ) *)

(* A JSON document: a number, an array, or an object, which is the sequence
   of its key/value pairs as they stand in the text.  A Python value: an
   int, a list, a str, or a dict, which is the sequence of its items in
   insertion order, no key twice.  A raise is the value PyError. *)
PyInt(n) == [t |-> "int", n |-> n]
PyList(items) == [t |-> "list", items |-> items]
JObj(pairs) == [t |-> "object", pairs |-> pairs]
PyStr(s) == [t |-> "str", s |-> s]
PyBytes(b) == [t |-> "bytes", b |-> b]
PyNone == [t |-> "None"]
PyDict(items) == [t |-> "dict", items |-> items]
PyError(exc) == [t |-> "error", exc |-> exc]

(* the position of key k in the items of a dict, or 0 *)
KeyIndex(items, k) ==
    IF \E i \in 1..Len(items) : items[i].k = k
    THEN CHOOSE i \in 1..Len(items) : items[i].k = k
    ELSE 0

(* a later occurrence of a key replacing the earlier one *)
ExtendOverwrite(target, v) == v

(* target.extend( v ): an int or a dict has no such method; a list takes
   the elements of a list, the keys of a dict, and nothing of an int *)
Extend(target, v) ==
    IF target.t # "list" THEN PyError("AttributeError")
    ELSE IF v.t = "list" THEN PyList(target.items \o v.items)
    ELSE IF v.t = "dict"
        THEN PyList(target.items \o [i \in 1..Len(v.items) |-> PyStr(v.items[i].k)])
    ELSE PyError("TypeError")

RECURSIVE HookLoop(_, _)
(* the loop of obj_hook over the pairs, out being the dict built so far *)
HookLoop(out, pairs) ==
    IF pairs = <<>> THEN PyDict(out)
    ELSE LET k == pairs[1].k
             v == pairs[1].v
             i == KeyIndex(out, k)
         IN IF i = 0 THEN HookLoop(Append(out, [k |-> k, v |-> v]), Tail(pairs))
            ELSE LET e == Extend(out[i].v, v) IN
                 IF e.t = "error" THEN e
                 ELSE HookLoop([out EXCEPT ![i].v = e], Tail(pairs))

(* obj_hook( obj ): obj is the list of the pairs of one JSON object, the
   values already decoded *)
obj_hook(obj) == HookLoop(<<>>, obj)

RECURSIVE json_loads(_)
(* json.loads with object_pairs_hook: the hook is called for every object
   of the document, the innermost first *)
json_loads(doc) ==
    IF doc.t = "list" THEN
        LET items == [i \in 1..Len(doc.items) |-> json_loads(doc.items[i])] IN
        IF \E i \in 1..Len(items) : items[i].t = "error"
        THEN items[CHOOSE i \in 1..Len(items) :
                     items[i].t = "error" /\ \A j \in 1..(i - 1) : items[j].t # "error"]
        ELSE PyList(items)
    ELSE IF doc.t = "object" THEN
        LET ps == [i \in 1..Len(doc.pairs) |->
                      [k |-> doc.pairs[i].k, v |-> json_loads(doc.pairs[i].v)]] IN
        IF \E i \in 1..Len(ps) : ps[i].v.t = "error"
        THEN ps[CHOOSE i \in 1..Len(ps) :
                  ps[i].v.t = "error" /\ \A j \in 1..(i - 1) : ps[j].v.t # "error"].v
        ELSE obj_hook(ps)
    ELSE doc

(* The response bodies: objects of up to MaxPairs pairs over two keys, the
   values being numbers, arrays, an object that repeats a key and an array
   that holds such an object *)
MaxPairs == 3
JsonKeys == {"x", "y"}
JsonValues ==
    { PyInt(7),
      PyList(<<PyInt(1)>>),
      PyList(<<PyInt(2), PyInt(3)>>),
      JObj(<<[k |-> "x", v |-> PyList(<<PyInt(1)>>)],
             [k |-> "x", v |-> PyList(<<PyInt(2), PyInt(3)>>)]>>),
      PyList(<<JObj(<<[k |-> "x", v |-> PyList(<<PyInt(1)>>)],
                     [k |-> "y", v |-> PyInt(7)],
                     [k |-> "x", v |-> PyList(<<>>)],
                     [k |-> "x", v |-> PyList(<<PyInt(4)>>)]>>)>>) }
JsonDocs == {JObj(p) : p \in SeqsUpTo([k : JsonKeys, v : JsonValues], MaxPairs)}

JsonInit ==
    /\ platform = "posix"
    /\ instances = {}
    /\ ConnInit
    /\ CacheIdle
    /\ arg \in JsonDocs
    /\ res = NoValue

(* do_action, from the text of the body on *)
Loads ==
    /\ res = NoValue
    /\ res' = json_loads(arg)
    /\ UNCHANGED <<arg, connVars, cacheVars>>

JsonNext == Loads

SpecJson == JsonInit /\ [][JsonNext]_vars

----------------------------------------------------------------------------
(* Connection._action for parameter mappings of up to MaxParams items: keys
   and values with reserved characters, bools, ints, lists *)
MaxParams == 2
ParamKeys == {<<"s">>, <<"k", "=">>, <<"f">>}
ParamValues ==
    { StrVal(<<"a", "&", "b">>), BoolVal(TRUE), BoolVal(FALSE), IntVal(7),
      ListVal(<<>>),
      ListVal(<<StrVal(<<"x", " ", "y">>), BoolVal(TRUE)>>),
      ListVal(<<IntVal(2), IntVal(1), IntVal(2)>>) }
ParamMappings ==
    {ps \in SeqsUpTo([k : ParamKeys, v : ParamValues], MaxParams) :
        \A i, j \in 1..Len(ps) : i # j => ps[i].k # ps[j].k}
ActionInputs ==
    [t : {"action"}, action : {<<"list">>, <<"proxy">>, <<"add", "/", "url">>},
     params : ParamMappings, params_str : {<<>>, <<"s", "=", "label", "&", "v", "=", "x">>},
     token : {<<"T1">>}]

ActionInit ==
    /\ platform = "posix"
    /\ instances = {}
    /\ ConnInit
    /\ CacheIdle
    /\ arg \in ActionInputs
    /\ res = NoValue

BuildAction ==
    /\ res = NoValue
    /\ res' = [t |-> "location",
               loc |-> _action(arg.action, arg.params, arg.params_str, arg.token)]
    /\ UNCHANGED <<arg, connVars, cacheVars>>

ActionNext == BuildAction

SpecAction == ActionInit /\ [][ActionNext]_vars

----------------------------------------------------------------------------
(* The bencode codec: utorrent.bencode, utorrent.bdecode *)

RECURSIVE IndexOf(_, _, _)
(* the first position >= i of symbol ch in s, or 0 *)
IndexOf(s, ch, i) ==
    IF i > Len(s) THEN 0 ELSE IF s[i] = ch THEN i ELSE IndexOf(s, ch, i + 1)

(* A byte is a symbol: an ASCII character, or one of the bytes xA9, xC3,
   xFF.  ByteOrder lists the bytes of the model by ascending value.  A str
   is a sequence of characters, ASCII ones and "é" (U+00E9, in UTF-8 the
   bytes xC3 xA9). *)
ByteOrder ==
    <<" ", "-", "0", "1", "2", "3", "4", "5", "6", "7", "8", "9", ":", "_",
      "a", "b", "d", "e", "f", "i", "l", "n", "o", "p", "x", "xA9", "xC3", "xFF">>
Digits == <<"0", "1", "2", "3", "4", "5", "6", "7", "8", "9">>
IsDigit(c) == \E i \in 1..10 : Digits[i] = c
DigitVal(c) == (CHOOSE i \in 1..10 : Digits[i] = c) - 1
IsAscii(b) == b \notin {"xA9", "xC3", "xFF"}
ByteRank(b) == CHOOSE i \in 1..Len(ByteOrder) : ByteOrder[i] = b
CharRank(ch) == IF ch = "é" THEN Len(ByteOrder) + 1 ELSE ByteRank(ch)

RECURSIVE Utf8Encode(_)
(* s.encode( "utf8" ) *)
Utf8Encode(s) ==
    IF s = <<>> THEN <<>>
    ELSE (IF Head(s) = "é" THEN <<"xC3", "xA9">> ELSE <<Head(s)>>) \o Utf8Encode(Tail(s))

RECURSIVE Utf8Decode(_)
(* bout.decode( "utf8" ): the characters, or UnicodeDecodeError *)
Utf8Decode(b) ==
    IF b = <<>> THEN [ok |-> TRUE, s |-> <<>>]
    ELSE IF IsAscii(Head(b)) THEN
        LET r == Utf8Decode(Tail(b)) IN [ok |-> r.ok, s |-> <<Head(b)>> \o r.s]
    ELSE IF Len(b) >= 2 /\ b[1] = "xC3" /\ b[2] = "xA9" THEN
        LET r == Utf8Decode(SubSeq(b, 3, Len(b))) IN [ok |-> r.ok, s |-> <<"é">> \o r.s]
    ELSE [ok |-> FALSE, s |-> <<>>]

RECURSIVE DecStr(_)
(* str( n ), "{}".format( n ) of an int *)
DecStr(n) ==
    IF n < 0 THEN <<"-">> \o DecStr(0 - n)
    ELSE IF n < 10 THEN <<Digits[n + 1]>>
    ELSE DecStr(n \div 10) \o <<Digits[(n % 10) + 1]>>

RECURSIVE DigitsVal(_)
DigitsVal(text) ==
    IF text = <<>> THEN 0 ELSE DigitsVal(SubSeq(text, 1, Len(text) - 1)) * 10 + DigitVal(text[Len(text)])

RECURSIVE Strip(_)
(* text.strip( ): the text without the blanks around it *)
Strip(text) ==
    IF text = <<>> THEN text
    ELSE IF Head(text) = " " THEN Strip(Tail(text))
    ELSE IF text[Len(text)] = " " THEN Strip(SubSeq(text, 1, Len(text) - 1))
    ELSE text

(* int( text ): blanks around the literal are dropped; the literal is a sign
   and decimal digits, single underscores between digits allowed; anything
   else is a ValueError *)
ParseInt(text) ==
    LET lit == Strip(text)
        signed == lit # <<>> /\ lit[1] \in {"-", "+"}
        body == IF signed THEN Tail(lit) ELSE lit
        ds == SelectSeq(body, LAMBDA c : c # "_")
        wellFormed ==
            /\ body # <<>> /\ IsDigit(body[1]) /\ IsDigit(body[Len(body)])
            /\ \A i \in 1..Len(body) : IsDigit(body[i]) \/ body[i] = "_"
            /\ \A i \in 1..(Len(body) - 1) : ~(body[i] = "_" /\ body[i + 1] = "_")
    IN IF wellFormed
       THEN [ok |-> TRUE, n |-> IF signed /\ lit[1] = "-" THEN 0 - DigitsVal(ds) ELSE DigitsVal(ds)]
       ELSE [ok |-> FALSE, n |-> 0]

(* the order of sorted( ) on two keys: str by code points, bytes by values *)
KeyRanks(k) ==
    IF k.t = "str" THEN [i \in 1..Len(k.s) |-> CharRank(k.s[i])]
    ELSE [i \in 1..Len(k.b) |-> ByteRank(k.b[i])]
SeqLess(a, b) ==
    \E i \in 1..(Len(a) + 1) :
        /\ \A j \in 1..(i - 1) : j <= Len(b) /\ a[j] = b[j]
        /\ \/ i = Len(a) + 1 /\ Len(b) >= i
           \/ i <= Len(a) /\ i <= Len(b) /\ a[i] < b[i]

(* the keys in the order the dict holds them *)
KeysAsInserted(items) == [i \in 1..Len(items) |-> items[i].k]

(* sorted( obj.keys( ) ) *)
SortedKeys(items) ==
    LET n == Len(items)
        Before(i) == {j \in 1..n : SeqLess(KeyRanks(items[j].k), KeyRanks(items[i].k))}
    IN [r \in 1..n |-> items[CHOOSE i \in 1..n : Cardinality(Before(i)) = r - 1].k]

(* obj[k] *)
ItemOf(items, k) == items[CHOOSE i \in 1..Len(items) : items[i].k = k].v

(* str( len( obj ) ) + ":" + obj *)
BString(bytes) == DecStr(Len(bytes)) \o <<":">> \o bytes

RECURSIVE Concat(_)
Concat(parts) == IF parts = <<>> THEN <<>> ELSE Head(parts) \o Concat(Tail(parts))

RECURSIVE bencode(_)
(* utorrent.bencode, for ints, dicts with keys of one type, bytes, lists, str *)
bencode(obj) ==
    IF obj.t = "int" THEN <<"i">> \o DecStr(obj.n) \o <<"e">>
    ELSE IF obj.t = "dict" THEN
        LET ks == SortedKeys(obj.items) IN
        <<"d">> \o Concat([i \in 1..Len(ks) |->
                              bencode(ks[i]) \o bencode(ItemOf(obj.items, ks[i]))])
              \o <<"e">>
    ELSE IF obj.t = "bytes" THEN BString(obj.b)
    ELSE IF obj.t = "list" THEN
        <<"l">> \o Concat([i \in 1..Len(obj.items) |-> bencode(obj.items[i])]) \o <<"e">>
    ELSE BString(Utf8Encode(obj.s))

(* a test of the end marker by truth value: 0, "", [ ] and { } end the loop too *)
IsEndFalsy(v) ==
    \/ v.t = "None"
    \/ v.t = "int" /\ v.n = 0
    \/ v.t = "str" /\ v.s = <<>>
    \/ v.t = "bytes" /\ v.b = <<>>
    \/ v.t \in {"list", "dict"} /\ v.items = <<>>

(* e is None *)
IsEnd(v) == v.t = "None"

Parsed(v, p) == [ok |-> TRUE, exc |-> "None", v |-> v, p |-> p]
ParseError(exc) == [ok |-> FALSE, exc |-> exc, v |-> PyNone, p |-> 0]

(* out[k] = v: a key already there keeps its place *)
SetItem(items, k, v) ==
    LET i == KeyIndex(items, k) IN
    IF i = 0 THEN Append(items, [k |-> k, v |-> v]) ELSE [items EXCEPT ![i].v = v]

RECURSIVE bdecodeAt(_, _)
RECURSIVE ListLoop(_, _, _)
RECURSIVE DictLoop(_, _, _)

(* a list loop that leaves the end marker of the list in the stream *)
ListLoopPeek(data, p, out) ==
    LET e == bdecodeAt(data, p) IN
    IF ~e.ok THEN e
    ELSE IF IsEnd(e.v) THEN Parsed(PyList(out), p)
    ELSE ListLoop(data, e.p, Append(out, e.v))

(* the while loop of the "l" branch *)
ListLoop(data, p, out) ==
    LET e == bdecodeAt(data, p) IN
    IF ~e.ok THEN e
    ELSE IF IsEnd(e.v) THEN Parsed(PyList(out), e.p)
    ELSE ListLoop(data, e.p, Append(out, e.v))

(* the while loop of the "d" branch; a bytearray, list or dict key is unhashable *)
DictLoop(data, p, out) ==
    LET k == bdecodeAt(data, p) IN
    IF ~k.ok THEN k
    ELSE IF IsEnd(k.v) THEN Parsed(PyDict(out), k.p)
    ELSE LET v == bdecodeAt(data, k.p) IN
         IF ~v.ok THEN v
         ELSE IF k.v.t \in {"bytes", "list", "dict"} THEN ParseError("TypeError")
         ELSE DictLoop(data, v.p, SetItem(out, k.v, v.v))

(* utorrent.bdecode on the iterator over data that stands before position p:
   the value and the position after it, or the exception *)
bdecodeAt(data, p) ==
    IF p > Len(data) THEN ParseError("StopIteration")
    ELSE LET t == data[p] IN
    IF t = "e" THEN Parsed(PyNone, p + 1)
    ELSE IF t = "i" THEN
        LET q == IndexOf(data, "e", p + 1) IN
        IF q = 0 THEN ParseError("StopIteration")
        ELSE LET n == ParseInt(SubSeq(data, p + 1, q - 1)) IN
             IF n.ok THEN Parsed(PyInt(n.n), q + 1) ELSE ParseError("ValueError")
    ELSE IF t = "l" THEN ListLoop(data, p + 1, <<>>)
    ELSE IF t = "d" THEN DictLoop(data, p + 1, <<>>)
    ELSE IF IsDigit(t) THEN
        LET q == IndexOf(data, ":", p + 1) IN
        IF q = 0 THEN ParseError("StopIteration")
        ELSE LET l == ParseInt(SubSeq(data, p, q - 1)) IN
             IF ~l.ok THEN ParseError("ValueError")
             ELSE IF q + l.n > Len(data) THEN ParseError("StopIteration")
             ELSE LET bout == SubSeq(data, q + 1, q + l.n)
                      u == Utf8Decode(bout)
                  IN Parsed(IF u.ok THEN PyStr(u.s) ELSE PyBytes(bout), q + l.n + 1)
    ELSE Parsed(PyNone, p + 1)

(* utorrent.bdecode( data ) *)
bdecode(data) == bdecodeAt(data, 1)

(* Desktop.get_info_hash: the bytes handed to sha1, or the exception *)
get_info_hash(torrent_data) ==
    LET d == bdecode(torrent_data) IN
    IF ~d.ok THEN [ok |-> FALSE, exc |-> d.exc, b |-> <<>>]
    ELSE IF d.v.t # "dict" THEN [ok |-> FALSE, exc |-> "TypeError", b |-> <<>>]
    ELSE IF KeyIndex(d.v.items, PyStr(<<"i", "n", "f", "o">>)) = 0
        THEN [ok |-> FALSE, exc |-> "KeyError", b |-> <<>>]
    ELSE [ok |-> TRUE, exc |-> "None",
          b |-> bencode(ItemOf(d.v.items, PyStr(<<"i", "n", "f", "o">>)))]


(* The values handed to bencode: ints, str, bytes that are not text, and
   lists and dicts of up to MaxItems of them, the dicts in every insertion
   order; among the elements, lists and dicts that nest further *)
MaxItems == 2
CodecScalars ==
    { PyInt(0), PyInt(1), PyInt(0 - 120),
      PyStr(<<>>), PyStr(<<"x">>), PyStr(<<"é", "e", "1", ":">>),
      PyBytes(<<"xFF">>) }
CodecNested ==
    { PyList(<<>>), PyDict(<<>>),
      PyList(<<PyInt(0), PyStr(<<>>), PyList(<<>>)>>),
      PyDict(<<[k |-> PyStr(<<"a", "b">>), v |-> PyInt(1)],
               [k |-> PyStr(<<"a">>), v |-> PyList(<<PyDict(<<>>)>>)]>>) }
CodecKeys == {PyStr(<<>>), PyStr(<<"a">>), PyStr(<<"b">>), PyStr(<<"é">>)}
CodecValues ==
    CodecScalars \cup CodecNested
    \cup {PyList(l) : l \in SeqsUpTo(CodecScalars \cup CodecNested, MaxItems)}
    \cup {PyDict(d) : d \in {x \in SeqsUpTo([k : CodecKeys, v : CodecScalars \cup CodecNested],
                                             MaxItems) :
                                \A i, j \in 1..Len(x) : i # j => x[i].k # x[j].k}}

(* The contents of torrent files: a mapping with the key info, whose value
   is a mapping of some of these entries; keys and strings are bytes *)
InfoEntries ==
    { [k |-> PyBytes(<<"l">>), v |-> PyInt(120)],
      [k |-> PyBytes(<<"n">>), v |-> PyBytes(<<"xC3", "xA9", "a">>)],
      [k |-> PyBytes(<<"p">>), v |-> PyBytes(<<"xFF", "xC3", "e">>)],
      [k |-> PyBytes(<<"f">>),
       v |-> PyList(<<PyDict(<<[k |-> PyBytes(<<"p">>), v |-> PyList(<<PyBytes(<<"a">>)>>)],
                               [k |-> PyBytes(<<"l">>), v |-> PyInt(0)]>>)>>)],
      [k |-> PyBytes(<<"xFF">>), v |-> PyInt(1)] }
InfoKey == <<"i", "n", "f", "o">>
Torrents ==
    {PyDict(<<[k |-> PyBytes(InfoKey), v |-> PyDict(SetToSeq(es))]>> \o rest) :
        es \in SUBSET InfoEntries,
        rest \in {<<>>, <<[k |-> PyBytes(<<"a">>), v |-> PyBytes(<<"a", ":", "b">>)]>>}}

CodecInit ==
    /\ platform = "posix"
    /\ instances = {}
    /\ ConnInit
    /\ CacheIdle
    /\ arg \in [t : {"value"}, v : CodecValues] \cup [t : {"torrent"}, v : Torrents]
    /\ res = NoValue

(* bdecode( bencode( v ) ) *)
RoundTrip ==
    /\ res = NoValue /\ arg.t = "value"
    /\ res' = [t |-> "roundtrip", enc |-> bencode(arg.v), dec |-> bdecode(bencode(arg.v))]
    /\ UNCHANGED <<arg, connVars, cacheVars>>

(* get_info_hash on the file whose content is the encoding of the mapping *)
InfoHash ==
    /\ res = NoValue /\ arg.t = "torrent"
    /\ res' = [t |-> "infohash", blob |-> bencode(arg.v), h |-> get_info_hash(bencode(arg.v))]
    /\ UNCHANGED <<arg, connVars, cacheVars>>

CodecNext == RoundTrip \/ InfoHash

SpecCodec == CodecInit /\ [][CodecNext]_vars

(* The byte streams handed to bdecode.  A well-formed stream is the encoding
   of a value, or the end marker, followed by further bytes.  A malformed
   one is an encoding with the terminator of the integer, list or mapping
   taken away (alone, and as the element of a list), an encoding cut short
   after any of its bytes, or the encoding of a string with one byte that
   is not a digit put into its length prefix. *)
StreamValues ==
    CodecScalars \cup CodecNested
    \cup {PyList(l) : l \in SeqsUpTo(CodecScalars, MaxItems)}
    \cup {PyDict(<<[k |-> k, v |-> v]>>) : k \in CodecKeys, v \in CodecScalars \cup CodecNested}
Suffixes == {<<>>, <<"e">>, <<"x">>, <<"i", "0", "e">>, <<"1", ":">>}
NonDigits == {" ", "_", "-", "x"}
PrefixStrings ==
    {v \in CodecScalars : v.t \in {"str", "bytes"}}
    \cup {PyStr(<<"a", "b", "d", "e", "f", "i", "l", "n", "o", "p">>)}
Insert(s, i, c) == SubSeq(s, 1, i) \o <<c>> \o SubSeq(s, i + 1, Len(s))
Unterminated(v) == SubSeq(bencode(v), 1, Len(bencode(v)) - 1)
Stream(t, v, data) == [t |-> t, v |-> v, data |-> data]
WellFormedStreams ==
    {Stream("value", v, bencode(v) \o s) : v \in StreamValues, s \in Suffixes}
    \cup {Stream("end", PyNone, <<"e">> \o s) : s \in Suffixes}
MalformedStreams ==
    UNION {{Stream("terminator", v, Unterminated(v)),
            Stream("terminator", v, <<"l">> \o Unterminated(v) \o <<"e">>)} :
              v \in {x \in StreamValues : x.t \in {"int", "list", "dict"}}}
    \cup UNION {{Stream("cut", v, SubSeq(bencode(v), 1, n)) : n \in 1..(Len(bencode(v)) - 1)} :
                  v \in StreamValues}
    \cup UNION {{Stream("prefix", v, Insert(bencode(v), i, c)) :
                     i \in 0..(IndexOf(bencode(v), ":", 1) - 1), c \in NonDigits} :
                  v \in PrefixStrings}

DecodeInit ==
    /\ platform = "posix"
    /\ instances = {}
    /\ ConnInit
    /\ CacheIdle
    /\ arg \in WellFormedStreams \cup MalformedStreams
    /\ res = NoValue

(* bdecode( iter( data ) ): the value, the position of the cursor, or the
   exception *)
Decode ==
    /\ res = NoValue
    /\ res' = [t |-> "decoded", dec |-> bdecode(arg.data)]
    /\ UNCHANGED <<arg, connVars, cacheVars>>

DecodeNext == Decode

SpecDecode == DecodeInit /\ [][DecodeNext]_vars

----------------------------------------------------------------------------
(* The API version resolver: Connection.utorrent, utorrent.uTorrent.Version *)

(* What do_action hands back to the resolver: the decoded answer, of which
   the model keeps the top-level keys, version.product_code,
   version.major_version and the names of the settings (setting[0]); or the
   exception, with its type and its message (e.args[0]) *)
MaxMajor == 4
MaxSettings == 2
Products == {"server", "desktop", "PRODUCT_CODE", "embedded"}
SettingNames == {"webui.uconnect_enable", "webui.port", "bind_port"}
Answer(keys, product, major, settings) ==
    [keys |-> keys, product |-> product, major |-> major, settings |-> settings]
NoAnswer == Answer({}, "", 0, <<>>)
Error(type, msg) == [type |-> type, msg |-> msg]
NoError == Error("None", "")
Answered(a) == [how |-> "return", v |-> a, e |-> NoError]
Failing(e) == [how |-> "raise", v |-> NoAnswer, e |-> e]
InvalidRequestText == "invalid request"
ProbeAnswers ==
    {Answer({"version", "build"}, p, m, <<>>) : p \in Products, m \in 0..MaxMajor}
    \cup {Answer({"build"}, "", 0, <<>>), NoAnswer}
SettingsAnswers ==
    {Answer({"build", "settings"}, "", 0, st) : st \in SeqsUpTo(SettingNames, MaxSettings)}
    \cup {Answer({"settings"}, "", 0, <<"webui.uconnect_enable">>), Answer({"build"}, "", 0, <<>>)}
RequestErrors ==
    { Error("uTorrentError", InvalidRequestText),
      Error("uTorrentError", "Request /gui/: Unauthorized"),
      Error("uTorrentError", "Internal Server Error: 500"),
      Error("uTorrentError", "Timeout after 1 tries"),
      Error("BadStatusLine", ""),
      Error("socket.error", "Broken pipe"),
      Error("ValueError", "No JSON object could be decoded") }

(* Version.__init__: the product and the major version, or the exception *)
Version(r) ==
    IF "version" \in r.keys
    THEN [ok |-> TRUE, e |-> NoError, product |-> r.product, major |-> r.major]
    ELSE IF "build" \in r.keys
    THEN [ok |-> TRUE, e |-> NoError, product |-> "desktop", major |-> 0]
    ELSE [ok |-> FALSE,
          e |-> Error("uTorrentError", "Cannot detect version from the supplied server response"),
          product |-> "", major |-> 0]

(* Version.detect_from_settings *)
detect_from_settings(settings) ==
    LET out == Version(settings) IN
    IF ~out.ok THEN out
    ELSE IF "settings" \notin settings.keys
    THEN [ok |-> FALSE, e |-> Error("KeyError", "settings"), product |-> "", major |-> 0]
    ELSE [out EXCEPT !.major =
              IF \E i \in 1..Len(settings.settings) :
                     settings.settings[i] = "webui.uconnect_enable"
              THEN 3 ELSE 2]

(* a choice of the dialect in which every major version from 3 on is Falcon *)
SelectFrom3(ver) ==
    IF ver.product = "server" THEN [ok |-> TRUE, e |-> NoError, dialect |-> "LinuxServer"]
    ELSE IF ver.product = "desktop" \/ ver.product = "PRODUCT_CODE"
    THEN [ok |-> TRUE, e |-> NoError, dialect |-> IF ver.major >= 3 THEN "Falcon" ELSE "Desktop"]
    ELSE [ok |-> FALSE, e |-> Error("uTorrentError", "Unsupported WebUI API"), dialect |-> "None"]

(* lines 219-227 of Connection.utorrent: the dialect class for a version *)
Select(ver) ==
    IF ver.product = "server" THEN [ok |-> TRUE, e |-> NoError, dialect |-> "LinuxServer"]
    ELSE IF ver.product = "desktop" \/ ver.product = "PRODUCT_CODE"
    THEN [ok |-> TRUE, e |-> NoError, dialect |-> IF ver.major = 3 THEN "Falcon" ELSE "Desktop"]
    ELSE [ok |-> FALSE, e |-> Error("uTorrentError", "Unsupported WebUI API"), dialect |-> "None"]

(* a fallback taken on every uTorrentError of the probe *)
IsAnyRequestError(e) == e.type = "uTorrentError"

(* except utorrent.uTorrentError as e: if e.args[0] == "invalid request" *)
IsInvalidRequest(e) == e.type = "uTorrentError" /\ e.msg = InvalidRequestText

(* the end of Connection.utorrent: the actions requested, and the dialect
   object returned (its constructor attaches it to the connection) or the
   exception raised *)
Resolved(sent, d) == [sent |-> sent, how |-> "return", dialect |-> d, e |-> NoError]
Unresolved(sent, e) == [sent |-> sent, how |-> "raise", dialect |-> "None", e |-> e]
Finish(sent, ver) ==
    IF ~ver.ok THEN Unresolved(sent, ver.e)
    ELSE LET c == Select(ver) IN
         IF c.ok THEN Resolved(sent, c.dialect) ELSE Unresolved(sent, c.e)

(* Connection.utorrent( api ), given what do_action( "getversion" ) and
   do_action( "getsettings" ) would end in *)
utorrent(api, probe, settings) ==
    IF api = "linux" THEN Resolved(<<>>, "LinuxServer")
    ELSE IF api = "desktop" THEN Resolved(<<>>, "Desktop")
    ELSE IF api = "falcon" THEN Resolved(<<>>, "Falcon")
    ELSE IF probe.how = "return" THEN Finish(<<"getversion">>, Version(probe.v))
    ELSE IF ~IsInvalidRequest(probe.e) THEN Unresolved(<<"getversion">>, probe.e)
    ELSE IF settings.how = "raise" THEN Unresolved(<<"getversion", "getsettings">>, settings.e)
    ELSE Finish(<<"getversion", "getsettings">>, detect_from_settings(settings.v))

ResolveInit ==
    /\ platform = "posix"
    /\ instances = {"c1"}
    /\ ConnInit
    /\ CacheIdle
    /\ arg \in [api : {None, "linux", "desktop", "falcon"},
                probe : {Answered(a) : a \in ProbeAnswers} \cup {Failing(e) : e \in RequestErrors},
                settings : {Answered(a) : a \in SettingsAnswers}
                           \cup {Failing(e) : e \in RequestErrors}]
    /\ res = NoValue

(* connection.utorrent( api ) *)
Resolve ==
    /\ res = NoValue
    /\ LET r == utorrent(arg.api, arg.probe, arg.settings) IN
       /\ res' = [t |-> "resolved", r |-> r]
       /\ _utorrent' = IF r.how = "return" THEN [_utorrent EXCEPT !["c1"] = r.dialect]
                       ELSE _utorrent
    /\ UNCHANGED <<platform, phase, _token, _connection, _request, _cookies,
                   pc, call, mr, hist, ret, lastReq, recv, instances>>
    /\ UNCHANGED <<arg, cacheVars>>

ResolveNext == Resolve

SpecResolve == ResolveInit /\ [][ResolveNext]_vars

----------------------------------------------------------------------------
(* Connection._get_data with a save_buffer: the Range header and the loop
   that streams the body of the response into the sink *)

(* an optional argument: None, or a number *)
Absent == [given |-> FALSE, n |-> 0]
Given(n) == [given |-> TRUE, n |-> n]

ChunkSize == 10240
MaxChunks == 2
MaxRange == 2
BodySizes == {k * ChunkSize + d : k \in 0..MaxChunks, d \in {0, 1, ChunkSize - 1}}
RangeStarts == {Absent} \cup {Given(n) : n \in 0..MaxRange} \cup {Given(ChunkSize - 1)}
RangeLens == {Absent} \cup {Given(n) : n \in 0..MaxRange} \cup {Given(ChunkSize)}

(* a Range header whose end is the first byte after the range *)
RangeHeaderHalfOpen(range_start, range_len) ==
    IF ~range_start.given THEN [sent |-> FALSE, text |-> <<>>]
    ELSE [sent |-> TRUE,
          text |-> <<"b", "y", "t", "e", "s", "=">> \o DecStr(range_start.n) \o <<"-">>
                   \o (IF ~range_len.given \/ range_len.n = 0 THEN <<>>
                       ELSE DecStr(range_start.n + range_len.n))]

(* lines 119-124: headers["Range"] = "bytes={}-{}".format( range_start, range_end ) *)
RangeHeader(range_start, range_len) ==
    IF ~range_start.given THEN [sent |-> FALSE, text |-> <<>>]
    ELSE [sent |-> TRUE,
          text |-> <<"b", "y", "t", "e", "s", "=">> \o DecStr(range_start.n) \o <<"-">>
                   \o (IF ~range_len.given \/ range_len.n = 0 THEN <<>>
                       ELSE DecStr(range_start.n + range_len.n - 1))]

(* resp.read( 10240 ) with unread bytes left in the body: the number of
   bytes it returns; none at the end of the body, else at most 10240, and
   maybe fewer than asked for *)
ReadSizes(unread) ==
    IF unread = 0 THEN {0}
    ELSE {IF unread < ChunkSize THEN unread ELSE ChunkSize}
         \cup (IF unread > ChunkSize \div 2 THEN {ChunkSize \div 2} ELSE {})

StreamInit ==
    /\ platform = "posix"
    /\ instances = {"c1"}
    /\ ConnInit
    /\ CacheIdle
    /\ arg \in [range_start : RangeStarts, range_len : RangeLens, body : BodySizes,
                progress_cb : BOOLEAN,
                content_range : {Absent, Given((MaxChunks + 1) * ChunkSize)}]
    /\ res = NoValue

(* do_action( ..., save_buffer = sink ) up to the loop of _get_data: the
   headers of the request, and the response whose body is to be read.
   resp_len is the total of the Content-Range header, else resp.length. *)
GetData ==
    /\ res = NoValue
    /\ res' = [pc |-> "read",
               Range |-> RangeHeader(arg.range_start, arg.range_len),
               pos |-> 0, read |-> 0,
               resp_len |-> IF arg.content_range.given THEN arg.content_range.n ELSE arg.body,
               sink |-> <<>>, cb |-> <<>>, ret |-> NoValue]
    /\ UNCHANGED <<arg, connVars, cacheVars>>

(* a callback that is called for the reads that returned bytes only *)
ProgressAfterWrite(calls, progress_cb, n, entry) ==
    IF progress_cb /\ n > 0 THEN Append(calls, entry) ELSE calls

(* lines 137-138: if progress_cb: progress_cb( range_start, read, resp_len ),
   before the test for the end of the body *)
Progress(calls, progress_cb, n, entry) ==
    IF progress_cb THEN Append(calls, entry) ELSE calls

(* one iteration of the while loop, lines 134-141, where resp.read returns n
   bytes; with no bytes, the end of _get_data (return None) and of do_action
   (lines 199-202: return "") *)
ReadChunk(n) ==
    /\ res # NoValue /\ res.pc = "read"
    /\ LET read == res.read + n
           called == Progress(res.cb, arg.progress_cb, n,
                              [range_start |-> arg.range_start, read |-> read,
                               resp_len |-> res.resp_len])
       IN IF n = 0
          THEN res' = [res EXCEPT !.read = read, !.cb = called, !.pc = "done",
                                  !.ret = PyStr(<<>>)]
          ELSE res' = [res EXCEPT !.read = read, !.cb = called, !.pos = res.pos + n,
                                  !.sink = Append(res.sink, [from |-> res.pos, len |-> n])]
    /\ UNCHANGED <<arg, connVars, cacheVars>>

Unreads == IF res = NoValue \/ res.pc # "read" THEN {} ELSE ReadSizes(arg.body - res.pos)

StreamNext ==
    \/ GetData
    \/ \E n \in Unreads : ReadChunk(n)

SpecStream == StreamInit /\ [][StreamNext]_vars

----------------------------------------------------------------------------
(* Desktop.torrent_add_url, torrent_add_data with a download_dir *)

(* A directory is a sequence of characters; an optional one is None or a
   directory.  The server holds the setting dir_active_download. *)
NoDir == [given |-> FALSE, s |-> <<>>]
Dir(s) == [given |-> TRUE, s |-> s]
MaxDirs == 2
DirNames == {<<"/", "d", ToString(i)>> : i \in 1..MaxDirs}
PriorDirs == {<<>>} \cup DirNames
DownloadDirs == {NoDir, Dir(<<>>), Dir(<<"s", "u", "b">>)} \cup {Dir(d) : d \in DirNames}
(* if x: of an optional string *)
Truthy(x) == x.given /\ x.s # <<>>
(* self._pathmodule.isabs, self._pathmodule.sep of posixpath *)
isabs(s) == s # <<>> /\ s[1] = "/"
sep == <<"/">>

(* Where the call is cut short by do_action raising: in no request, in the
   getsettings or the setsetting of _handle_download_dir, in the add request
   or in the setsetting of _handle_prev_dir.  A request that raises has not
   changed the server. *)
FailPoints == {"none", "get", "set", "add", "restore"}
AddAnswers == {"ok", "error"}

(* _handle_download_dir: the value returned, the setting on the server and
   the requests made *)
_handle_download_dir(download_dir, setting, fail) ==
    IF ~Truthy(download_dir)
    THEN [ok |-> TRUE, out |-> NoDir, setting |-> setting, sent |-> <<>>]
    ELSE IF fail = "get"
    THEN [ok |-> FALSE, out |-> NoDir, setting |-> setting, sent |-> <<"getsettings">>]
    ELSE LET out == setting
             dir == IF isabs(download_dir.s) THEN download_dir.s
                    ELSE out \o sep \o download_dir.s
         IN IF fail = "set"
            THEN [ok |-> FALSE, out |-> Dir(out), setting |-> setting,
                  sent |-> <<"getsettings", "setsetting">>]
            ELSE [ok |-> TRUE, out |-> Dir(out), setting |-> dir,
                  sent |-> <<"getsettings", "setsetting">>]

(* _handle_prev_dir: if prev_dir: settings_set( { "dir_active_download": prev_dir } ) *)
_handle_prev_dir(prev_dir, setting, fail) ==
    IF ~Truthy(prev_dir) THEN [ok |-> TRUE, setting |-> setting, sent |-> <<>>]
    ELSE IF fail = "restore" THEN [ok |-> FALSE, setting |-> setting, sent |-> <<"setsetting">>]
    ELSE [ok |-> TRUE, setting |-> prev_dir.s, sent |-> <<"setsetting">>]

(* torrent_add_url / torrent_add_data: action is "add-url" or "add-file" *)
torrent_add(action, download_dir, setting, fail, answer) ==
    LET h == _handle_download_dir(download_dir, setting, fail) IN
    IF ~h.ok THEN [how |-> "raise", exc |-> "transport", setting |-> h.setting, sent |-> h.sent]
    ELSE IF fail = "add"
    THEN [how |-> "raise", exc |-> "transport", setting |-> h.setting,
          sent |-> Append(h.sent, action)]
    ELSE LET p == _handle_prev_dir(h.out, h.setting, fail)
             sent == Append(h.sent, action) \o p.sent
         IN IF ~p.ok
            THEN [how |-> "raise", exc |-> "transport", setting |-> p.setting, sent |-> sent]
            ELSE IF answer = "error"
            THEN [how |-> "raise", exc |-> "uTorrentError", setting |-> p.setting, sent |-> sent]
            ELSE [how |-> "return", exc |-> "None", setting |-> p.setting, sent |-> sent]

AddInit ==
    /\ platform = "posix"
    /\ instances = {"c1"}
    /\ ConnInit
    /\ CacheIdle
    /\ arg \in [action : {"add-url", "add-file"}, download_dir : DownloadDirs,
                prior : PriorDirs, fail : FailPoints, answer : AddAnswers]
    /\ res = NoValue

(* torrent_add_url( url, download_dir ), torrent_add_data( data, download_dir ) *)
Add ==
    /\ res = NoValue
    /\ res' = [t |-> "added",
               r |-> torrent_add(arg.action, arg.download_dir, arg.prior, arg.fail, arg.answer)]
    /\ UNCHANGED <<arg, connVars, cacheVars>>

AddNext == Add

SpecAdd == AddInit /\ [][AddNext]_vars

----------------------------------------------------------------------------
(* Reading a request as the server does *)

RECURSIVE Split(_, _)
(* the parts of s between the occurrences of symbol ch *)
Split(s, ch) ==
    LET i == IndexOf(s, ch, 1) IN
    IF i = 0 THEN <<s>>
    ELSE <<SubSeq(s, 1, i - 1)>> \o Split(SubSeq(s, i + 1, Len(s)), ch)

(* the query parameters of a location: what follows the first "?", cut at "&" *)
QueryParams(loc) ==
    LET q == IndexOf(loc, "?", 1) IN
    IF q = 0 THEN <<>> ELSE Split(SubSeq(loc, q + 1, Len(loc)), "&")

(* the location has the query parameter name=value *)
HasParam(loc, name, value) ==
    \E i \in 1..Len(QueryParams(loc)) : QueryParams(loc)[i] = <<name, "=">> \o value

(* the location has a query parameter of that name *)
HasParamNamed(loc, name) ==
    \E i \in 1..Len(QueryParams(loc)) :
        Len(QueryParams(loc)[i]) >= 1 /\ QueryParams(loc)[i][1] = name

(* the call in progress, or the last one, has ended *)
Ended == pc = "idle" /\ ret.how # None
EndedByRaiseIn(where) == Ended /\ ret.how = "raise" /\ ret.where = where
Sent == lastReq.conn # None

----------------------------------------------------------------------------
(* C1: _make_request makes at most max_retries + 1 attempts (max_retries is
   the retry budget, 1 with retry=False), whatever the outcomes are.
   The code does not keep this bound: after a 400 has set utserver_retry the
   loop condition stays true, so retried faults go on without limit. *)
C1_AttemptsBounded == hist.attempts <= mr.max_retries + 1

(* C2: with no 400 in the call: while fewer than N attempts have all ended in
   a bad status line the call goes on; a success after k < N such failures
   is returned, and it is the response of attempt k+1; N such failures end
   the call at attempt N with the error of the N-th failure. *)
C2_BadStatusLineBudget ==
    LET N == mr.max_retries IN
    (hist.attempts >= 1 /\ hist.n400 = 0) =>
        /\ (hist.allBad /\ hist.attempts < N) => (pc = "request" /\ ret = NoRet)
        /\ hist.allBad => hist.attempts <= N
        /\ (hist.allBad /\ hist.attempts = N) =>
               /\ EndedByRaiseIn("_make_request")
               /\ ret.exc = Exc("BadStatusLine", "transport", N, 0)
        /\ (hist.badBefore /\ hist.last.kind = "response" /\ hist.last.status \in {200, 206}) =>
               /\ hist.attempts <= N
               /\ hist.resp = hist.attempts
               /\ pc = "body" \/ (Ended /\ ret.where # "_make_request")

(* C2 witness: a budget of 3 used up by three bad status lines *)
C2_Witness ==
    /\ mr.max_retries = 3 /\ hist.allBad /\ hist.attempts = 3
    /\ EndedByRaiseIn("_make_request") /\ ret.exc.at = 3

(* C3 as claimed: the first 400 of a call is always followed by a further
   attempt, whatever is attached to the connection, and the second 400 is
   raised. *)
C3_First400AlwaysRetried ==
    (hist.last.kind = "response" /\ hist.last.status = 400) =>
        IF hist.n400 = 1 THEN pc = "request" /\ ret = NoRet
        ELSE /\ EndedByRaiseIn("_make_request")
             /\ ret.exc = Exc("uTorrentError", "InvalidRequest", hist.attempts, 0)

(* C3 amended: a 400 is followed by a further attempt, which uses none of the
   retry budget, exactly when it is the first 400 of the call and no dialect
   object or a LinuxServer object is attached; any other 400 (the second of the
   call, or one with a Desktop or Falcon object attached) is raised at once as
   InvalidRequest.  With retry=False as well. *)
C3_First400RetriedByDialect ==
    (hist.last.kind = "response" /\ hist.last.status = 400) =>
        /\ hist.n400 <= 2
        /\ IF hist.n400 = 1 /\ _utorrent[call.self] \in {None, "LinuxServer"}
           THEN pc = "request" /\ ret = NoRet /\ mr.utserver_retry
           ELSE /\ EndedByRaiseIn("_make_request")
                /\ ret.exc = Exc("uTorrentError", "InvalidRequest", hist.attempts, 0)

(* C3 witness: with a LinuxServer object attached and retry=False, a 400, its
   retry, and the second 400 raised *)
C3_Witness ==
    /\ hist.n400 = 2 /\ hist.attempts = 2 /\ ~call.retry
    /\ _utorrent[call.self] = "LinuxServer"
    /\ EndedByRaiseIn("_make_request") /\ ret.exc.kind = "InvalidRequest"

(* the faults C4 speaks of *)
IsRefused(o) == o.kind = "socket.error" /\ o.errno = ECONNREFUSED
IsReset(o) == o.kind = "socket.error" /\ o.errno = ECONNRESET
IsUnreachable(o) == o.kind = "socket.error" /\ o.errno = EHOSTUNREACH
IsNameFailure(o) == o.kind = "gaierror"

(* the call ended by raising at the latest attempt *)
RaisedAtLastAttempt ==
    EndedByRaiseIn("_make_request") /\ ret.exc.at = hist.attempts

(* C4 as claimed: a refused, reset or unreachable fault, or a name resolution
   failure, ends the call with an error at the attempt it occurs in; as the
   first outcome of a call it leaves exactly one attempt made. *)
C4_FatalFaultsNotRetried ==
    (IsRefused(hist.last) \/ IsReset(hist.last) \/ IsUnreachable(hist.last)
        \/ IsNameFailure(hist.last)) => RaisedAtLastAttempt

(* C4 amended: the same, for a connection reset only when its errno is not
   10054, which is the value of errno.ECONNRESET on Windows: there the reset is
   caught by the 10053/10054 branch before, and retried after the pause. *)
C4_FatalFaultsNotRetriedExceptWSAReset ==
    (IsRefused(hist.last) \/ (IsReset(hist.last) /\ hist.last.errno # WSAECONNRESET)
        \/ IsUnreachable(hist.last) \/ IsNameFailure(hist.last)) => RaisedAtLastAttempt

(* C4 witness: a refused connection as the first outcome of a call with the
   whole budget of 3 left *)
C4_Witness ==
    /\ IsRefused(hist.last) /\ hist.attempts = 1 /\ mr.max_retries = 3 /\ mr.retries = 0
    /\ EndedByRaiseIn("_make_request")

(* C5: every exception that leaves _make_request is a uTorrentError. *)
C5_OnlyLibraryErrorsLeave ==
    EndedByRaiseIn("_make_request") => ret.exc.type = "uTorrentError"

(* C6: when _make_request ends by raising, the connection is closed. *)
C6_ClosedWhenMakeRequestRaises ==
    EndedByRaiseIn("_make_request") => _connection[call.self] = "closed"

(* C6 witness: a 401, which no handler inside the loop closes the connection for *)
C6_Witness ==
    EndedByRaiseIn("_make_request") /\ ret.exc.kind = "Unauthorized"

(* C7: when do_action has returned or raised, the connection is closed. *)
C7_ClosedWhenDoActionEnds ==
    (Ended /\ call.kind = "action") => _connection[call.self] = "closed"

(* C8 as claimed: every action request sent carries token=<the session token>. *)
C8_EveryActionCarriesToken ==
    (Sent /\ call.kind = "action") => HasParam(lastReq.loc, "token", _token[lastReq.conn])

(* C8 amended: every action request other than "proxy" carries the session
   token as its first query parameter token=<token>; a "proxy" request
   carries the caller's parameters only, and no token parameter. *)
C8_NonProxyActionsCarryToken ==
    (Sent /\ call.kind = "action") =>
        IF call.action # <<"proxy">>
        THEN /\ _token[lastReq.conn] \in Tokens
             /\ QueryParams(lastReq.loc)[1] = <<"token", "=">> \o _token[lastReq.conn]
        ELSE ~HasParamNamed(lastReq.loc, "token")

(* C8 witness: a "list" request on the wire *)
C8_Witness == Sent /\ call.action = <<"list">> /\ HasParam(lastReq.loc, "list", <<"1">>)

(* C9: a request other than that of the token page is sent only by an
   instance whose token fetch has succeeded; the only request of an instance
   under construction is that of the token page; a token page without the
   pattern makes the construction fail with TokenUnavailable; and an instance
   whose construction failed has no call in progress. *)
C9_TokenFetchFirst ==
    /\ (Sent /\ lastReq.loc # TokenPage) =>
           phase[lastReq.conn] = "ready" /\ _token[lastReq.conn] \in Tokens
    /\ (Sent /\ phase[lastReq.conn] # "ready") => lastReq.loc = TokenPage
    /\ \A c \in Conns : phase[c] = "ready" => _token[c] \in Tokens
    /\ (Ended /\ call.kind = "token" /\ hist.body.kind = "text" /\ ~TokenMatch(hist.body.page)) =>
           /\ ret = Raised(Exc("uTorrentError", "TokenUnavailable", hist.attempts, 0),
                           "_fetch_token")
           /\ phase[call.self] = "failed"
    /\ \A c \in Conns : phase[c] = "failed" => ~(call.self = c /\ pc # "idle")

(* C9 witness: a construction failed on a token page without the pattern *)
C9_Witness ==
    /\ Ended /\ ret.exc.kind = "TokenUnavailable" /\ phase[call.self] = "failed"
    /\ hist.attempts = 1

(* C10: once the instance has accumulated cookies from its successful
   responses, every request of a later call carries a Cookie header with the
   pair of each cookie accumulated up to the end of the previous call. *)
C10_CookiesCarried ==
    (Sent /\ call.acc # {}) => CookieHeader(call.acc) \subseteq lastReq.headers.Cookie

(* C10 witness: the retry of a multipart upload, both cookies accumulated *)
C10_Witness ==
    /\ Sent /\ call.acc = Cookies /\ lastReq.body # None /\ hist.attempts >= 2
    /\ lastReq.headers.Cookie = CookieHeader(Cookies)

(* C11 as stated: the cookies set by any response, whatever its status, are
   in the accumulated cookie set afterwards. *)
C11_CookiesOfEveryResponseKept ==
    (hist.attempts > 0 /\ hist.last.kind = "response") =>
        hist.last.setcookie \subseteq _cookies

(* C11: the cookies set by a response with status 200 or 206 are added to the
   accumulated cookie set and to the Cookie header of the request object;
   the cookies set by a response with any other status (a 400 that is
   retried, a 401, a 404, a 500) are dropped: the call has then added
   nothing to the cookies accumulated when it started. *)
C11_CookiesOfSuccessfulResponsesKept ==
    hist.attempts > 0 =>
        IF hist.last.kind = "response" /\ hist.last.status \in {200, 206}
        THEN /\ _cookies = call.acc \cup hist.last.setcookie
             /\ _cookies # {} => _request[call.self].Cookie = CookieHeader(_cookies)
        ELSE _cookies = call.acc

(* C11 witness: an earlier call accumulated one cookie from a 200; in this
   call a 400 was retried and the retry was answered 401 with the other
   cookie, which is dropped *)
C11_Witness ==
    /\ hist.n400 = 1 /\ hist.attempts = 2 /\ hist.last.status = 401
    /\ hist.last.setcookie = {Cookie1} /\ call.acc = {Cookie2} /\ _cookies = {Cookie2}
    /\ _request[call.self].Cookie = CookieHeader({Cookie2})

(* C12 as stated: two Connection instances share no session state.  The
   cookie set an instance holds and the Cookie header of its request object
   contain only cookies that its own responses have set, and no step of one
   instance changes the token or the connection of another. *)
C12_InstancesShareNothing ==
    /\ [](\A c \in Conns : phase[c] # "none" =>
              /\ _cookies \subseteq recv[c]
              /\ _request[c].Cookie \subseteq CookieHeader(recv[c]))
    /\ [][\A c \in Conns : c # call'.self =>
              /\ _token'[c] = _token[c]
              /\ _connection'[c] = _connection[c]]_vars

(* C13: against a server that answers each delta with the keys removed and
   the entities added or changed since the identifier the client sent,
   after every fetch (the full one and each of the deltas that follow it)
   each entity cache is the mapping from key to entity tuple of the lists
   the server holds at that moment, which is what a full fetch gives. *)
C13_CacheConverges ==
    (fetch.done /\ fetch.fresh) =>
        /\ _torrent_cache = Dict(server.now.torrents)
        /\ _rssfeed_cache = Dict(server.now.rssfeeds)
        /\ _rssfilter_cache = Dict(server.now.rssfilters)

(* C13 witness: the second delta in a row has just been applied; the cache
   holds torrent h1 with its changed field, torrent h2 is gone, a feed is in *)
C13_Witness ==
    /\ fetch.done /\ fetch.fresh /\ fetch.deltas >= 2 /\ fetch.held # 0
    /\ _torrent_cache = Dict([k \in {"h1"} |-> <<"h1", "b">>])
    /\ DOMAIN _rssfeed_cache.d = FeedKeys

(* C15: when a fetch has succeeded the held identifier is the one its
   response returned; and the fetch asked for the full list exactly when
   the identifier held at its start was zero, otherwise it sent that
   identifier as the cid parameter of its list request. *)
C15_IdentifierAdoptedAndSent ==
    /\ (fetch.done /\ fetch.ok) => _list_cache_id = fetch.out.torrentc
    /\ fetch.done =>
        /\ fetch.req.action = <<"list">>
        /\ LET loc == _action(fetch.req.action, fetch.req.params, <<>>, <<"T1">>) IN
           IF fetch.held = 0
           THEN ~HasParamNamed(loc, "cid")
           ELSE HasParam(loc, "cid", <<ToString(fetch.held)>>)

(* C15 witness: a delta request carried the identifier 1, its response
   returned 0, and 0 is held now: the next fetch will ask for the full list *)
C15_Witness ==
    /\ fetch.done /\ fetch.ok /\ fetch.held = 1 /\ fetch.out.torrentc = 0
    /\ _list_cache_id = 0 /\ fetch.deltas >= 1
    /\ ListRequest(_list_cache_id).params = <<>>

(* the keys of the entities of an array, and the last entity with key k *)
KeysIn(array) == {array[i][1] : i \in 1..Len(array)}
ElemsOf(array) == {array[i] : i \in 1..Len(array)}
LastWithKey(array, k) ==
    array[CHOOSE i \in 1..Len(array) :
            /\ array[i][1] = k
            /\ \A j \in (i + 1)..Len(array) : array[j][1] # k]

(* what a delta that has been applied makes of one cache: the entities of
   the added array (the last one of each key) are in, whatever the removed
   array says; of the rest, those of the removed array are out and the
   others are as before *)
DeltaApplied(before, after, removed, added) ==
    /\ ~after.isNone
    /\ DOMAIN after.d = (DOMAIN before.d \ ElemsOf(removed)) \cup KeysIn(added)
    /\ \A k \in DOMAIN after.d :
          after.d[k] = IF k \in KeysIn(added) THEN LastWithKey(added, k) ELSE before.d[k]

(* C14: in a delta application that completes, for each kind the removals
   take effect before the insertions: an entity whose key is in both arrays
   is in the cache afterwards with the tuple of the added array. *)
C14_RemovalsBeforeInsertions ==
    (fetch.done /\ fetch.held # 0 /\ fetch.ok) =>
        /\ DeltaApplied(fetch.before[1], _torrent_cache, fetch.out.torrentm, fetch.out.torrentp)
        /\ DeltaApplied(fetch.before[2], _rssfeed_cache, fetch.out.rssfeedm, fetch.out.rssfeedp)
        /\ DeltaApplied(fetch.before[3], _rssfilter_cache,
                        fetch.out.rssfilterm, fetch.out.rssfilterp)

(* C14 witness: torrent h1 was cached with field a; the delta names h1 in its
   removed array and <<h1, b>> in its added array; h1 is cached with field b,
   and so is the feed that the same delta replaced *)
C14_Witness ==
    /\ fetch.done /\ fetch.held # 0 /\ fetch.ok
    /\ fetch.before[1].d = [k \in {"h1"} |-> <<"h1", "a">>]
    /\ fetch.out.torrentm = <<"h1">> /\ fetch.out.torrentp = << <<"h1", "b">> >>
    /\ _torrent_cache.d = [k \in {"h1"} |-> <<"h1", "b">>]
    /\ fetch.out.rssfeedm = <<"feed1">> /\ "feed1" \in DOMAIN _rssfeed_cache.d

(* the values of key k in the pairs of an object, in the order of the text *)
ValuesOf(pairs, k) ==
    LET idx == {i \in 1..Len(pairs) : pairs[i].k = k}
        F[i \in 0..Len(pairs)] ==
            IF i = 0 THEN <<>>
            ELSE IF i \in idx THEN Append(F[i - 1], pairs[i].v) ELSE F[i - 1]
    IN F[Len(pairs)]

(* the keys of the pairs, each once, in the order of their first occurrence *)
FirstKeys(pairs) ==
    LET F[i \in 0..Len(pairs)] ==
            IF i = 0 THEN <<>>
            ELSE IF \E j \in 1..(i - 1) : pairs[j].k = pairs[i].k THEN F[i - 1]
            ELSE Append(F[i - 1], pairs[i].k)
    IN F[Len(pairs)]

RECURSIVE OnlyListsRepeat(_)
(* at every level of the document, a key that occurs more than once has
   array values only *)
OnlyListsRepeat(doc) ==
    IF doc.t = "list" THEN \A i \in 1..Len(doc.items) : OnlyListsRepeat(doc.items[i])
    ELSE IF doc.t = "object" THEN
        /\ \A i \in 1..Len(doc.pairs) : OnlyListsRepeat(doc.pairs[i].v)
        /\ \A i, j \in 1..Len(doc.pairs) :
              (i # j /\ doc.pairs[i].k = doc.pairs[j].k) => doc.pairs[i].v.t = "list"
    ELSE TRUE

RECURSIVE Merged(_)
(* the document read key by key: a key that occurs once has its value, a key
   that occurs several times the concatenation of its arrays *)
Merged(doc) ==
    IF doc.t = "list" THEN PyList([i \in 1..Len(doc.items) |-> Merged(doc.items[i])])
    ELSE IF doc.t = "object" THEN
        LET ks == FirstKeys(doc.pairs) IN
        PyDict([n \in 1..Len(ks) |->
                  LET vs == ValuesOf(doc.pairs, ks[n]) IN
                  [k |-> ks[n],
                   v |-> IF Len(vs) = 1 THEN Merged(vs[1])
                         ELSE PyList(Concat([m \in 1..Len(vs) |-> Merged(vs[m]).items]))]])
    ELSE doc

(* C16: for a response in which, at every nesting level, the keys that occur
   more than once have list values, do_action returns for each such key the
   concatenation of its lists in the order of the text, and for a key that
   occurs once its value. *)
C16_RepeatedKeysConcatenated ==
    (res # NoValue /\ OnlyListsRepeat(arg)) => res = Merged(arg)

(* C16 witness: x occurs three times at the top, and twice in the object that
   is the value of y; the example of the claim is part of it *)
C16_Witness ==
    /\ arg = JObj(<<[k |-> "x", v |-> PyList(<<PyInt(1)>>)],
                    [k |-> "y", v |-> JObj(<<[k |-> "x", v |-> PyList(<<PyInt(1)>>)],
                                            [k |-> "x", v |-> PyList(<<PyInt(2), PyInt(3)>>)]>>)],
                    [k |-> "x", v |-> PyList(<<PyInt(2), PyInt(3)>>)]>>)
    /\ res = PyDict(<<[k |-> "x", v |-> PyList(<<PyInt(1), PyInt(2), PyInt(3)>>)],
                      [k |-> "y", v |-> PyDict(<<[k |-> "x",
                                                 v |-> PyList(<<PyInt(1), PyInt(2), PyInt(3)>>)]>>)]>>)

RECURSIVE Scalars(_)
(* the parameter mapping read item by item: a scalar value gives one
   (key, value) pair, a list one pair per element, in the order of the list *)
Scalars(params) ==
    IF params = <<>> THEN <<>>
    ELSE (IF params[1].v.t = "list"
          THEN [i \in 1..Len(params[1].v.items) |-> [k |-> params[1].k, v |-> params[1].v.items[i]]]
          ELSE <<params[1]>>)
         \o Scalars(Tail(params))

(* the text of a scalar: a bool as 1 or 0, an int in decimal, a str as it is *)
ScalarText(v) ==
    CASE v.t = "bool" -> IF v.b THEN <<"1">> ELSE <<"0">>
      [] v.t = "int" -> <<ToString(v.n)>>
      [] OTHER -> v.s

(* the pairs that stand before those of the parameters: token and list=1
   for "list", token and action=... for another action of gui/, none for "proxy" *)
Leading(action, token) ==
    IF action = <<"proxy">> THEN <<>>
    ELSE IF action = <<"list">> THEN << <<"token", "=">> \o token, <<"list", "=", "1">> >>
    ELSE << <<"token", "=">> \o token, <<"action", "=">> \o _url_quote(action) >>

(* C17: the query string of _action holds, after the leading pairs (token
   and list=1, or token and action; none for the proxy action), one
   URL-encoded key=value pair per scalar parameter and per element of a
   list parameter, in order, a bool as 1 or 0; a raw parameter string comes
   last, verbatim, after one "&". *)
C17_QueryPairsInOrder ==
    res # NoValue =>
        LET raw == arg.params_str
            tail == IF raw # <<>> THEN <<"&">> \o raw ELSE <<>>
            n == Len(res.loc) - Len(tail)
            head == SubSeq(res.loc, 1, n)
            lead == Leading(arg.action, arg.token)
            sc == Scalars(arg.params)
            want == lead \o [i \in 1..Len(sc) |->
                               _url_quote(sc[i].k) \o <<"=">> \o _url_quote(ScalarText(sc[i].v))]
        IN /\ n >= 1 /\ SubSeq(res.loc, n + 1, Len(res.loc)) = tail
           /\ IF want = <<>> THEN head[Len(head)] = "?"
              ELSE QueryParams(head) = want

(* C17 witness: a key with "=" whose value is the list of a string with a
   space and a bool, an int, and a raw parameter string *)
C17_Witness ==
    /\ arg.action = <<"add", "/", "url">>
    /\ arg.params = <<[k |-> <<"k", "=">>,
                       v |-> ListVal(<<StrVal(<<"x", " ", "y">>), BoolVal(TRUE)>>)],
                      [k |-> <<"s">>, v |-> IntVal(7)]>>
    /\ res # NoValue
    /\ res.loc = <<"gui", "/", "?", "token", "=", "T1", "&", "action", "=", "add", "%2F", "url",
                   "&", "k", "%3D", "=", "x", "%20", "y", "&", "k", "%3D", "=", "1",
                   "&", "s", "=", "7", "&", "s", "=", "label", "&", "v", "=", "x">>

RECURSIVE PyEq(_, _)
(* == of Python: dicts are equal when they have the same keys with equal
   values, whatever the insertion order *)
PyEq(a, b) ==
    IF a.t # b.t THEN FALSE
    ELSE IF a.t = "list" THEN
        /\ Len(a.items) = Len(b.items)
        /\ \A i \in 1..Len(a.items) : PyEq(a.items[i], b.items[i])
    ELSE IF a.t = "dict" THEN
        /\ Len(a.items) = Len(b.items)
        /\ \A i \in 1..Len(a.items) :
              \E j \in 1..Len(b.items) :
                  a.items[i].k = b.items[j].k /\ PyEq(a.items[i].v, b.items[j].v)
    ELSE a = b

(* C18: for every value of the input set -- integers, strings (the empty
   one too), lists and mappings with distinct string keys (the empty ones
   too), nested -- bdecode( bencode( v ) ) reads the whole encoding and
   equals v. *)
C18_RoundTrip ==
    (res # NoValue /\ res.t = "roundtrip") =>
        /\ res.dec.ok
        /\ res.dec.p = Len(res.enc) + 1
        /\ PyEq(res.dec.v, arg.v)

(* C18 witness: a list that holds the empty string and the empty mapping *)
C18_Witness ==
    /\ res # NoValue /\ res.t = "roundtrip"
    /\ arg.v = PyList(<<PyStr(<<>>), PyDict(<<>>)>>)
    /\ res.enc = <<"l", "0", ":", "d", "e", "e">>
    /\ res.dec.v = arg.v

RECURSIVE KeysAscend(_)
(* in a decoded value, which holds the entries of a mapping in the order of
   the encoding: at every level the keys, as bytes, ascend *)
KeysAscend(v) ==
    IF v.t = "list" THEN \A i \in 1..Len(v.items) : KeysAscend(v.items[i])
    ELSE IF v.t = "dict" THEN
        /\ \A i \in 1..Len(v.items) : KeysAscend(v.items[i].v)
        /\ \A i \in 1..(Len(v.items) - 1) :
              SeqLess(KeyRanks(PyBytes(Utf8Encode(v.items[i].k.s))),
                      KeyRanks(PyBytes(Utf8Encode(v.items[i + 1].k.s))))
    ELSE TRUE

RECURSIVE Reversed(_)
(* the same value built with the entries of every mapping inserted in the
   opposite order *)
Reversed(v) ==
    IF v.t = "list" THEN PyList([i \in 1..Len(v.items) |-> Reversed(v.items[i])])
    ELSE IF v.t = "dict" THEN
        PyDict([i \in 1..Len(v.items) |->
                  [k |-> v.items[Len(v.items) + 1 - i].k,
                   v |-> Reversed(v.items[Len(v.items) + 1 - i].v)]])
    ELSE v

(* C19: the encoding holds the entries of every mapping, at every level, in
   ascending byte order of the keys; the same entries inserted in the
   opposite order give the same bytes; {a: 1, b: x} gives d1:ai1e1:b1:xe. *)
C19_KeysSorted ==
    (res # NoValue /\ res.t = "roundtrip") =>
        /\ res.dec.ok /\ KeysAscend(res.dec.v)
        /\ bencode(Reversed(arg.v)) = res.enc
        /\ PyEq(arg.v, PyDict(<<[k |-> PyStr(<<"a">>), v |-> PyInt(1)],
                                [k |-> PyStr(<<"b">>), v |-> PyStr(<<"x">>)]>>))
              => res.enc = <<"d", "1", ":", "a", "i", "1", "e", "1", ":", "b", "1", ":", "x", "e">>

(* C19 witness: the mapping of the claim, b inserted before a *)
C19_Witness ==
    /\ res # NoValue /\ res.t = "roundtrip"
    /\ arg.v = PyDict(<<[k |-> PyStr(<<"b">>), v |-> PyStr(<<"x">>)],
                        [k |-> PyStr(<<"a">>), v |-> PyInt(1)]>>)
    /\ res.enc = <<"d", "1", ":", "a", "i", "1", "e", "1", ":", "b", "1", ":", "x", "e">>

(* C20 as stated: for every torrent file that is the encoding of a mapping
   with the key info, get_info_hash digests the bytes that encode the info
   value in the file. *)
C20_InfoBytesPreserved ==
    (res # NoValue /\ res.t = "infohash") =>
        /\ res.h.ok
        /\ res.h.b = bencode(ItemOf(arg.v.items, PyBytes(InfoKey)))


(* C21 as stated: bdecode raises, and returns nothing, on every stream in
   which an integer, list or mapping lacks its terminator, the length prefix
   of a string holds a byte that is not a digit, or the stream ends in the
   middle of a value. *)
C21_MalformedInputFails ==
    (res # NoValue /\ arg.t \in {"terminator", "cut", "prefix"}) => ~res.dec.ok

(* C21, the faults other than the length prefix: a missing terminator and a
   stream that ends in the middle of a value always end in an exception. *)
C21_ShortInputFails ==
    (res # NoValue /\ arg.t \in {"terminator", "cut"}) => ~res.dec.ok
(* the bytes of the stream that the cursor has not passed *)
Unread == SubSeq(arg.data, res.dec.p, Len(arg.data))

(* C22: bdecode on a cursor over bencode(v) followed by any bytes s returns
   v and leaves the cursor at the first byte of s; on a cursor whose next
   byte is the terminator it passes that one byte and returns the end
   sentinel None. *)
C22_ConsumesOneValue ==
    res # NoValue =>
        /\ arg.t = "value" =>
               /\ res.dec.ok /\ PyEq(res.dec.v, arg.v)
               /\ res.dec.p = Len(bencode(arg.v)) + 1
               /\ arg.data = bencode(arg.v) \o Unread
        /\ arg.t = "end" =>
               /\ res.dec.ok /\ res.dec.v = PyNone /\ res.dec.p = 2
               /\ arg.data = <<"e">> \o Unread

(* C22 witness: a list of two elements decoded from a stream that goes on
   with a terminator, which is left unread *)
C22_Witness ==
    /\ res # NoValue /\ arg.t = "value"
    /\ arg.v = PyList(<<PyInt(1), PyStr(<<"x">>)>>)
    /\ res.dec.ok /\ res.dec.v = arg.v /\ Unread = <<"e">>

(* the call went through auto-detection and the probe was answered *)
ProbeAnswered == res # NoValue /\ arg.api = None /\ arg.probe.how = "return"
(* the outcome of the call *)
Gives(d) == res.r.how = "return" /\ res.r.dialect = d /\ _utorrent["c1"] = d
Raises(e) == res.r.how = "raise" /\ res.r.e = e /\ _utorrent["c1"] = None

(* C23: with auto-detection every probe answer has one outcome.  An answer
   with a version object gives LinuxServer for the product code "server";
   for a desktop product (the codes "desktop" and "PRODUCT_CODE") Falcon
   when the major version is 3 and Desktop for any other major version; and
   the error Unsupported WebUI API for every other product code.  (An
   answer with only a build number is taken for a desktop product without a
   major version, hence Desktop; one with neither raises the error of
   Version.) *)
C23_OneOutcomePerProbe ==
    ProbeAnswered =>
        LET a == arg.probe.v IN
        /\ res.r.sent = <<"getversion">>
        /\ "version" \in a.keys =>
               IF a.product = "server" THEN Gives("LinuxServer")
               ELSE IF a.product \in {"desktop", "PRODUCT_CODE"}
               THEN IF a.major = 3 THEN Gives("Falcon") ELSE Gives("Desktop")
               ELSE Raises(Error("uTorrentError", "Unsupported WebUI API"))
        /\ ("version" \notin a.keys /\ "build" \in a.keys) => Gives("Desktop")
        /\ a.keys = {} => res.r.how = "raise" /\ _utorrent["c1"] = None

(* C23 witness: a desktop product of a major version above 3 is Desktop *)
C23_Witness ==
    /\ ProbeAnswered /\ arg.probe.v.product = "desktop" /\ arg.probe.v.major = 4
    /\ "version" \in arg.probe.v.keys /\ Gives("Desktop")

(* C24: when the probe is rejected with the error "invalid request", the
   resolver requests the settings once and, the settings answered, gives
   Falcon exactly when they hold webui.uconnect_enable and Desktop
   otherwise; every other error of the probe is raised to the caller as it
   is, with no settings request and no dialect object attached. *)
C24_FallbackOnInvalidRequest ==
    (res # NoValue /\ arg.api = None /\ arg.probe.how = "raise") =>
        IF arg.probe.e = Error("uTorrentError", InvalidRequestText)
        THEN /\ res.r.sent = <<"getversion", "getsettings">>
             /\ (arg.settings.how = "return"
                    /\ arg.settings.v.keys = {"build", "settings"}) =>
                    IF \E i \in 1..Len(arg.settings.v.settings) :
                           arg.settings.v.settings[i] = "webui.uconnect_enable"
                    THEN Gives("Falcon") ELSE Gives("Desktop")
        ELSE /\ res.r.sent = <<"getversion">>
             /\ Raises(arg.probe.e)

(* C24 witness: the probe rejected, the settings without the Falcon setting *)
C24_Witness ==
    /\ res # NoValue /\ arg.api = None
    /\ arg.probe = Failing(Error("uTorrentError", InvalidRequestText))
    /\ arg.settings = Answered(Answer({"build", "settings"}, "", 0, <<"webui.port", "bind_port">>))
    /\ Gives("Desktop") /\ res.r.sent = <<"getversion", "getsettings">>

(* C25: when _make_request raises the Timeout error, the number of tries
   in its message is the number of requests the call has sent; and a call
   whose every attempt timed out ends, once its attempts are used up, by
   raising the Timeout error. *)
C25_TimeoutCountsAttempts ==
    /\ (EndedByRaiseIn("_make_request") /\ ret.exc.kind = "Timeout") =>
           ret.exc.tries = hist.attempts
    /\ (hist.attempts > 0 /\ hist.allTimeout) =>
           IF hist.attempts < mr.max_retries THEN pc = "request" /\ ret = NoRet
           ELSE /\ hist.attempts = mr.max_retries
                /\ EndedByRaiseIn("_make_request")
                /\ ret.exc = Exc("uTorrentError", "Timeout", hist.attempts, hist.attempts)

(* C25 witness: a timeout raised after a bad status line and two timeouts *)
C25_Witness ==
    /\ EndedByRaiseIn("_make_request") /\ ret.exc.kind = "Timeout"
    /\ ret.exc.tries = 3 /\ hist.attempts = 3 /\ ~hist.allTimeout

(* C26: a response with status 401, 404 or any status other than 200, 206
   and 400 ends the call in the step that receives it, by an error raised
   in _make_request at that attempt, whatever is left of the retry budget;
   the step leaves the cookies, the Cookie header of the request object
   and the token as they were. *)
C26_ErrorStatusEndsCall ==
    [][(/\ pc = "request" /\ hist'.attempts = hist.attempts + 1
        /\ hist'.last.kind = "response" /\ hist'.last.status \notin {200, 206, 400})
       => /\ pc' = "idle"
          /\ ret' = Raised(Exc("uTorrentError",
                               IF hist'.last.status = 404 THEN "NotFound"
                               ELSE IF hist'.last.status = 401 THEN "Unauthorized"
                               ELSE "UnexpectedStatus",
                               hist'.attempts, 0), "_make_request")
          /\ _cookies' = _cookies /\ _token' = _token
          /\ _request'[call.self].Cookie = _request[call.self].Cookie]_vars

(* C26 witness: the first attempt of a call with three attempts allowed is
   answered 500 with a cookie; the call has ended and the cookie is dropped *)
C26_Witness ==
    /\ EndedByRaiseIn("_make_request") /\ ret.exc.kind = "UnexpectedStatus"
    /\ hist.attempts = 1 /\ mr.max_retries = 3 /\ mr.retries = 0
    /\ hist.last.status = 500 /\ hist.last.setcookie = {Cookie1}
    /\ _cookies = {} /\ call.kind = "action"

(* the latest attempt failed with a fault that _make_request retries *)
RetriedFault(o) ==
    \/ o.kind \in {"BadStatusLine", "CannotSendRequest", "timeout"}
    \/ o.kind = "socket.error" /\ o.errno \in {WSAECONNABORTED, WSAECONNRESET}

(* C27 as stated: the pause of 2 seconds is taken exactly after the socket
   errors 10053 and 10054, and every pause is followed by a further request
   of the same call; a bad status line and a timeout are retried without a
   pause; each of these faults takes one unit of the retry budget. *)
C27_PauseThenRetry ==
    [][(pc = "request" /\ hist'.attempts = hist.attempts + 1) =>
           LET o == hist'.last IN
           /\ hist'.slept <=>
                  (o.kind = "socket.error" /\ o.errno \in {WSAECONNABORTED, WSAECONNRESET})
           /\ hist'.slept => (pc' = "request" /\ ret' = NoRet)
           /\ RetriedFault(o) => mr'.retries = mr.retries + 1]_vars

(* C27, the parts that the code keeps: the pause is taken exactly after the
   socket errors 10053 and 10054; it is followed by a further request when
   the retry budget is not used up by the failed attempt; each retried
   fault takes one unit of the budget. *)
C27_PauseWhileBudgetLasts ==
    [][(pc = "request" /\ hist'.attempts = hist.attempts + 1) =>
           LET o == hist'.last IN
           /\ hist'.slept <=>
                  (o.kind = "socket.error" /\ o.errno \in {WSAECONNABORTED, WSAECONNRESET})
           /\ (hist'.slept /\ (mr.retries + 1 < mr.max_retries \/ mr.utserver_retry))
                  => (pc' = "request" /\ ret' = NoRet)
           /\ RetriedFault(o) => mr'.retries = mr.retries + 1]_vars

(* the text after "bytes=", split at the "-" *)
RangeFirst(text) == SubSeq(text, 7, IndexOf(text, "-", 7) - 1)
RangeLast(text) == SubSeq(text, IndexOf(text, "-", 7) + 1, Len(text))

(* C28: with a range start, the request has the header Range: bytes=a-b
   where a is the start and, for a length above zero, b is the last byte of
   the half-open range [start, start + len), i.e. b - a + 1 = len; for a
   length of zero or none the header is bytes=a- ; without a range start
   no Range header is sent, whatever the length. *)
C28_RangeHeader ==
    res # NoValue =>
        IF ~arg.range_start.given THEN ~res.Range.sent
        ELSE /\ res.Range.sent
             /\ SubSeq(res.Range.text, 1, 6) = <<"b", "y", "t", "e", "s", "=">>
             /\ ParseInt(RangeFirst(res.Range.text)) = [ok |-> TRUE, n |-> arg.range_start.n]
             /\ IF arg.range_len.given /\ arg.range_len.n > 0
                THEN LET last == ParseInt(RangeLast(res.Range.text)) IN
                     last.ok /\ last.n - arg.range_start.n + 1 = arg.range_len.n
                ELSE RangeLast(res.Range.text) = <<>>

(* C28 witness: the range of ChunkSize bytes from byte 1 *)
C28_Witness ==
    /\ res # NoValue /\ arg.range_start = Given(1) /\ arg.range_len = Given(ChunkSize)
    /\ res.Range.text = <<"b", "y", "t", "e", "s", "=", "1", "-", "1", "0", "2", "4", "0">>

(* the reads made so far, and the bytes read after the first i of them *)
Reads == Len(res.sink) + (IF res.pc = "done" THEN 1 ELSE 0)
ReadAfter(i) == IF i <= Len(res.sink) THEN res.sink[i].from + res.sink[i].len ELSE res.pos

(* C29: in a streamed download the sink is written the bytes of the body in
   order, each write of at most 10240 bytes, and at the end all of them;
   the progress callback, when there is one, is called once after every
   read, with the number of bytes read so far, which never decreases; its
   last call reports the number of bytes written to the sink; do_action
   returns the empty result "", not a decoded value. *)
C29_StreamedToSink ==
    res # NoValue =>
        /\ \A i \in 1..Len(res.sink) :
               /\ res.sink[i].len \in 1..ChunkSize
               /\ res.sink[i].from = (IF i = 1 THEN 0 ELSE ReadAfter(i - 1))
        /\ res.pos <= arg.body /\ res.read = res.pos
        /\ arg.progress_cb =>
               /\ Len(res.cb) = Reads
               /\ \A i \in 1..Reads : res.cb[i].read = ReadAfter(i)
               /\ \A i \in 1..(Reads - 1) : res.cb[i].read <= res.cb[i + 1].read
        /\ ~arg.progress_cb => res.cb = <<>>
        /\ res.pc = "done" =>
               /\ res.pos = arg.body
               /\ arg.progress_cb => res.cb[Len(res.cb)].read = arg.body
               /\ res.ret = PyStr(<<>>)
        /\ res.pc # "done" => res.ret = NoValue

(* C29 witness: a body of two chunks and one byte, read in four reads of
   which one was short, and the read that found the end *)
C29_Witness ==
    /\ res # NoValue /\ res.pc = "done" /\ arg.progress_cb
    /\ arg.body = 2 * ChunkSize + 1 /\ Len(res.sink) = 4 /\ Len(res.cb) = 5
    /\ res.sink[2].len < ChunkSize /\ res.cb[5].read = arg.body

(* the fetch was ended by an exception of do_action *)
TransportRaised == fetch.done /\ "raised" \in DOMAIN fetch.out

(* C30: when do_action raises during a list fetch, full or delta, the
   caller of torrent_list gets that exception, do_action has been called
   once, and the three caches and the cache identifier are as they were
   before the call. *)
C30_FailedFetchKeepsCaches ==
    TransportRaised =>
        /\ ~fetch.ok /\ fetch.exc = fetch.out.raised
        /\ fetch.calls = 1 /\ fetch.req = ListRequest(fetch.held)
        /\ _list_cache_id = fetch.held
        /\ <<_torrent_cache, _rssfeed_cache, _rssfilter_cache>> = fetch.before

(* C30 witness: a delta fetch with a torrent and a feed held ends in a
   socket error *)
C30_Witness ==
    /\ TransportRaised /\ fetch.exc = "socket.error" /\ fetch.held = 1
    /\ _list_cache_id = 1 /\ ~_torrent_cache.isNone
    /\ "h1" \in DOMAIN _torrent_cache.d /\ "feed1" \in DOMAIN _rssfeed_cache.d

(* the fetch failed while it applied the answer it had got *)
FailedApplying == fetch.done /\ ~fetch.ok /\ ~TransportRaised

(* C31 as stated: when _fetch_torrent_list fails while it applies an answer
   (a removed key that the cache lacks, an array or the cache identifier
   missing from the answer), the three caches and the cache identifier are
   as they were before the call. *)
C31_FailedApplyKeepsCaches ==
    FailedApplying =>
        /\ _list_cache_id = fetch.held
        /\ <<_torrent_cache, _rssfeed_cache, _rssfilter_cache>> = fetch.before

(* C31, what the code keeps: a fetch that fails leaves the cache identifier
   as it was, so the next request asks for the same kind of answer. *)
C31_FailedApplyKeepsIdentifier ==
    FailedApplying => _list_cache_id = fetch.held

(* C32 as stated: after torrent_add_url or torrent_add_data called with a
   download_dir, the setting dir_active_download on the server has the
   value it had before the call, whatever this value was (the empty string
   too), and whether the add request succeeded, answered with an error
   field or raised a transport error. *)
C32_DownloadDirRestored ==
    (res # NoValue /\ arg.download_dir.given /\ arg.fail \in {"none", "add"}) =>
        res.r.setting = arg.prior

(* C32, what the code keeps: the setting is restored when its previous
   value is not empty and no request of the call raises, whether the add
   request answers with an error field or not. *)
C32_RestoredWhenNothingRaises ==
    (res # NoValue /\ arg.download_dir.given /\ arg.fail = "none" /\ arg.prior # <<>>) =>
        res.r.setting = arg.prior

(* C33: once an instance is constructed, no step changes its token, whether
   the step is a call that returns, a request that is rejected or a call
   that raises; the instance stays constructed and starts no call of the
   token page, and a call of the token page in progress belongs to an
   instance under construction. *)
C33_TokenFixedAfterConstruction ==
    /\ []((pc # "idle" /\ call.kind = "token") => phase[call.self] = "none")
    /\ [][\A c \in Conns : phase[c] = "ready" =>
               /\ _token'[c] = _token[c]
               /\ phase'[c] = "ready"
               /\ (pc' # "idle" /\ call'.self = c) => call'.kind = "action"]_vars

(* C33 witness: an action of a constructed instance has been rejected with
   400 twice and has raised; the instance holds the token it fetched *)
C33_Witness ==
    /\ EndedByRaiseIn("_make_request") /\ call.kind = "action"
    /\ ret.exc.kind = "InvalidRequest" /\ hist.n400 = 2
    /\ phase[call.self] = "ready" /\ _token[call.self] \in Tokens

(* C34: the method, the body and the Content-Type of a request are those of
   the call that sends it, whatever the calls before it on the instance
   were: with data, POST with that body and the multipart Content-Type;
   without data, GET with no body and no Content-Type, also when the call
   before was an upload. *)
C34_MethodAndBodyOfTheCall ==
    Sent =>
        IF call.data # None
        THEN /\ lastReq.method = "POST" /\ lastReq.body = call.data
             /\ lastReq.headers.ContentType = "multipart/form-data"
        ELSE /\ lastReq.method = "GET" /\ lastReq.body = None
             /\ lastReq.headers.ContentType = None

(* C34 witness: the request of a list call made after an upload *)
C34_Witness ==
    /\ Sent /\ call.action = <<"list">> /\ call.prev = "multipart"
    /\ lastReq.method = "GET" /\ lastReq.body = None

----------------------------------------------------------------------------
(* Desktop.torrent_list called again and again on one instance, do_action
   returning any answer of RefetchResponses each time.  The variable server
   holds, for each kind and key, the entity tuple carried last by the
   answers so far (all), and by the answers whose fetch succeeded (ok);
   fetch.fresh says that no fetch so far has failed. *)

(* the record of the tuples received, after the array of one more answer *)
LatestOf(last, array) ==
    [k \in DOMAIN last \cup KeysIn(array) |->
        IF k \in KeysIn(array) THEN LastWithKey(array, k) ELSE last[k]]

(* the arrays of entity tuples that an answer can carry for each kind *)
Received(last, out) ==
    LET Of(kind, full, delta) ==
            LET a == IF full \in DOMAIN out THEN LatestOf(last[kind], out[full])
                     ELSE last[kind]
            IN IF delta \in DOMAIN out THEN LatestOf(a, out[delta]) ELSE a
    IN [torrents |-> Of("torrents", "torrents", "torrentp"),
        rssfeeds |-> Of("rssfeeds", "rssfeeds", "rssfeedp"),
        rssfilters |-> Of("rssfilters", "rssfilters", "rssfilterp")]

(* the answers of this server: up to MaxArray tuples of the torrents h1 and
   h2 in the added or full array, at most one removed key *)
SentTuples == {<<"h1", "a">>, <<"h1", "b">>, <<"h2", "a">>}
RefetchResponses(req) ==
    LackingResponses(req) \cup
    IF req.params = <<>>
    THEN {[torrents |-> a, rssfeeds |-> r.rssfeedp, rssfilters |-> r.rssfilterp,
           torrentc |-> c] :
             a \in SeqsUpTo(SentTuples, MaxArray), r \in RssParts, c \in {0, MaxCid}}
    ELSE {[torrentm |-> m, torrentp |-> a,
           rssfeedm |-> r.rssfeedm, rssfeedp |-> r.rssfeedp,
           rssfilterm |-> r.rssfilterm, rssfilterp |-> r.rssfilterp, torrentc |-> c] :
             m \in SeqsUpTo(TorrentKeys, 1), a \in SeqsUpTo(SentTuples, MaxArray),
             r \in RssParts, c \in {0, MaxCid}}

RefetchInit ==
    /\ platform = "posix"
    /\ instances = {}
    /\ ConnInit
    /\ FnIdle
    /\ server = [all |-> EmptyLists, ok |-> EmptyLists]
    /\ fetch = NoFetch
    /\ _list_cache_id = 0
    /\ _torrent_cache = NoDict /\ _rssfeed_cache = NoDict /\ _rssfilter_cache = NoDict

(* Desktop._fetch_torrent_list, do_action returning out *)
Refetch(out) ==
    LET req == ListRequest(_list_cache_id)
        r == _fetch_torrent_list(_list_cache_id, _torrent_cache, _rssfeed_cache,
                                 _rssfilter_cache, out)
    IN
    /\ _list_cache_id' = r.id
    /\ _torrent_cache' = r.torrents
    /\ _rssfeed_cache' = r.rssfeeds
    /\ _rssfilter_cache' = r.rssfilters
    /\ server' = [all |-> Received(server.all, out),
                  ok |-> IF r.ok THEN Received(server.ok, out) ELSE server.ok]
    /\ fetch' = [done |-> TRUE, held |-> _list_cache_id, req |-> req, out |-> <<>>,
                 ok |-> r.ok, exc |-> r.exc, before |-> <<>>,
                 deltas |-> IF req.params = <<>> THEN 0
                            ELSE IF fetch.deltas < MaxDeltas THEN fetch.deltas + 1
                            ELSE fetch.deltas,
                 fresh |-> (fetch.done => fetch.fresh) /\ r.ok, calls |-> 1]
    /\ UNCHANGED <<connVars, fnVars>>

RefetchNext ==
    \E out \in RefetchResponses(ListRequest(_list_cache_id)) : Refetch(out)

SpecRefetch == RefetchInit /\ [][RefetchNext]_vars

(* the tuple under key k of a cache has k as its first element *)
KeyedByFirst(cache) == \A k \in DOMAIN cache.d : cache.d[k][1] = k

(* each key of the cache maps to the tuple that last carries it *)
HoldsLatest(cache, last) ==
    \A k \in DOMAIN cache.d : k \in DOMAIN last /\ cache.d[k] = last[k]

(* each key of the cache maps to the tuple received last for it: in any
   answer, or in the answers of the fetches that succeeded *)
HoldsReceived(cache, kind) ==
    \A k \in DOMAIN cache.d :
        \/ k \in DOMAIN server.all[kind] /\ cache.d[k] = server.all[kind][k]
        \/ k \in DOMAIN server.ok[kind] /\ cache.d[k] = server.ok[kind][k]

(* C35: after a fetch that succeeded, in each of the three caches the tuple
   under key k has k as its first element and is the tuple received last
   for k, whether the answers of failed fetches count as received or not. *)
C35_KeyedAndLatest ==
    (fetch.done /\ fetch.ok) =>
        /\ KeyedByFirst(_torrent_cache) /\ HoldsReceived(_torrent_cache, "torrents")
        /\ KeyedByFirst(_rssfeed_cache) /\ HoldsReceived(_rssfeed_cache, "rssfeeds")
        /\ KeyedByFirst(_rssfilter_cache) /\ HoldsReceived(_rssfilter_cache, "rssfilters")

(* C35, with no failed fetch before: fresh is true while every fetch so far
   has succeeded *)
C35_KeyedAndLatestWhileNoneFailed ==
    (fetch.done /\ fetch.fresh) =>
        /\ KeyedByFirst(_torrent_cache) /\ HoldsLatest(_torrent_cache, server.all.torrents)
        /\ KeyedByFirst(_rssfeed_cache) /\ HoldsLatest(_rssfeed_cache, server.all.rssfeeds)
        /\ KeyedByFirst(_rssfilter_cache)
        /\ HoldsLatest(_rssfilter_cache, server.all.rssfilters)

(* C35, the keys alone: whatever came before, failed fetches included *)
C35_KeyedByFirst ==
    /\ KeyedByFirst(_torrent_cache)
    /\ KeyedByFirst(_rssfeed_cache)
    /\ KeyedByFirst(_rssfilter_cache)

----------------------------------------------------------------------------
(* The torrent operations that take hashes: Desktop.torrent_start, _stop,
   _pause, _resume, _recheck, _remove, torrent_info and file_list.  A str is
   the sequence of its characters. *)
HashLen == 40
MaxHashes == 2
HexChars ==
    {"0", "1", "2", "3", "4", "5", "6", "7", "8", "9",
     "a", "b", "c", "d", "e", "f", "A", "B", "C", "D", "E", "F"}
Fill(ch, n) == [i \in 1..n |-> ch]

(* what a caller can put where a hash is expected: a str, a Torrent object
   with its hash_code, or a value of another type *)
StrObj(s) == [cls |-> "str", s |-> s]
TorrentObj(s) == [cls |-> "Torrent", s |-> s]
OtherObj(cls) == [cls |-> cls, s |-> <<>>]
GoodStrings == {Fill("0", HashLen), Fill("c", HashLen), Fill("F", HashLen)}
BadStrings ==
    {<<>>, Fill("c", HashLen - 1), Fill("c", HashLen + 1), Fill("g", HashLen),
     <<" ">> \o Fill("c", HashLen), Fill("c", HashLen) \o <<"\n">>,
     Fill("c", HashLen) \o <<"\n", "\n">>, Fill("c", HashLen - 1) \o <<"\n">>}
HashDesignations ==
    {StrObj(s) : s \in GoodStrings \cup BadStrings}
        \cup {TorrentObj(Fill("F", HashLen)), TorrentObj(Fill("g", HashLen))}
        \cup {OtherObj("int"), OtherObj("bytes")}

(* the torrents argument: one value, or a list of up to MaxHashes values *)
One(x) == [islist |-> FALSE, v |-> <<x>>]
Several(xs) == [islist |-> TRUE, v |-> xs]
TorrentsArgs ==
    {One(x) : x \in HashDesignations}
        \cup {Several(xs) : xs \in SeqsUpTo(HashDesignations, MaxHashes)}

(* re.match( "[0-9A-F]{40}$", torrent_hash, re.IGNORECASE ): forty hex
   digits from the start, and then the end of the string, which "$" also
   finds before a newline that ends the string *)
is_hash(s) ==
    /\ Len(s) >= HashLen
    /\ \A i \in 1..HashLen : s[i] \in HexChars
    /\ \/ Len(s) = HashLen
       \/ Len(s) = HashLen + 1 /\ s[HashLen + 1] = "\n"

RECURSIVE HashLoop(_, _)
(* the loop of _get_hashes over what is left of torrents, out so far *)
HashLoop(left, out) ==
    IF left = <<>> THEN [ok |-> TRUE, exc |-> "None", out |-> out]
    ELSE LET t == Head(left) IN
         IF t.cls \notin {"Torrent", "str"}
         THEN [ok |-> FALSE, exc |-> "Hash designation only supported", out |-> <<>>]
         ELSE IF ~is_hash(t.s)
         THEN [ok |-> FALSE, exc |-> "Incorrect hash", out |-> <<>>]
         ELSE HashLoop(Tail(left), Append(out, t.s))

(* a value that is no list is wrapped in a tuple *)
_get_hashes(torrents) == HashLoop(torrents.v, <<>>)

(* the operations and the action each of them sends *)
HashOps ==
    {"torrent_start", "torrent_forcestart", "torrent_stop", "torrent_pause",
     "torrent_resume", "torrent_recheck", "torrent_remove",
     "torrent_remove_with_data", "torrent_info", "file_list"}
ActionOf(op) ==
    CASE op = "torrent_start" -> "start"
      [] op = "torrent_forcestart" -> "forcestart"
      [] op = "torrent_stop" -> "stop"
      [] op = "torrent_pause" -> "pause"
      [] op = "torrent_resume" -> "unpause"
      [] op = "torrent_recheck" -> "recheck"
      [] op = "torrent_remove" -> "remove"
      [] op = "torrent_remove_with_data" -> "removedata"
      [] op = "torrent_info" -> "getprops"
      [] op = "file_list" -> "getfiles"

(* self.do_action( action, { "hash": self._get_hashes( torrents ) } ): the
   argument is evaluated first, and do_action is not called if it raises *)
HashCall(op, torrents) ==
    LET h == _get_hashes(torrents) IN
    IF h.ok
    THEN [raised |-> "None", sent |-> <<[action |-> ActionOf(op), hash |-> h.out]>>]
    ELSE [raised |-> h.exc, sent |-> <<>>]

HashInit ==
    /\ platform = "posix"
    /\ instances = {"c1"}
    /\ ConnInit
    /\ CacheIdle
    /\ arg \in [op : HashOps, torrents : TorrentsArgs]
    /\ res = NoValue

HashOp ==
    /\ res = NoValue
    /\ res' = [t |-> "called", r |-> HashCall(arg.op, arg.torrents)]
    /\ UNCHANGED <<arg, connVars, cacheVars>>

HashNext == HashOp

SpecHashes == HashInit /\ [][HashNext]_vars

(* a designation of a torrent by a hash of forty hex digits *)
IsFortyHex(x) ==
    /\ x.cls \in {"Torrent", "str"}
    /\ Len(x.s) = HashLen
    /\ \A i \in 1..HashLen : x.s[i] \in HexChars
Supplied == {arg.torrents.v[i] : i \in 1..Len(arg.torrents.v)}
HashCalled == res # NoValue /\ res.t = "called"

(* C36: when one of the supplied elements is not a hash of forty hex digits
   given as a string or a Torrent object, the operation raises and sends no
   request. *)
C36_AllValidatedBeforeSending ==
    (HashCalled /\ \E x \in Supplied : ~IsFortyHex(x)) =>
        /\ res.r.raised # "None"
        /\ res.r.sent = <<>>

(* C36, as far as the code goes: an operation that raises has sent nothing,
   whichever element was at fault; it raises for every element that is of
   another type or that is_hash rejects; and is_hash lets through a string
   that is not forty hex digits only if it is forty hex digits and a
   newline *)
C36_NothingSentWhenRaised ==
    HashCalled =>
        /\ res.r.raised # "None" => res.r.sent = <<>>
        /\ (\E x \in Supplied : x.cls \notin {"Torrent", "str"} \/ ~is_hash(x.s))
               => res.r.raised # "None"
        /\ \A x \in Supplied :
               (x.cls \in {"Torrent", "str"} /\ is_hash(x.s) /\ ~IsFortyHex(x))
                   => x.s = SubSeq(x.s, 1, HashLen) \o <<"\n">>

----------------------------------------------------------------------------
(* The rss_list action of utorrentctl: the feeds and the filters that
   torrent_list hands over, as dicts in the order of the caches.  A feed is
   its id (the key of the feed cache); a filter is its filter_id and its
   feed_id, the first and the seventh element of its tuple. *)
MaxFeeds == 2
MaxFilters == 2
Unassigned == -1
FeedIds == 1..MaxFeeds
FilterIds == 1..MaxFilters
(* the feed ids a filter can carry: none, a feed, or a feed that is gone *)
FilterFeedIds == {Unassigned} \cup 1..(MaxFeeds + 1)
DistinctSeqs(S) ==
    {q \in SeqsUpTo(S, Cardinality(S)) : \A i, j \in 1..Len(q) : i # j => q[i] # q[j]}
FeedDictsListed == DistinctSeqs(FeedIds)

(* a line of the listing: a header, a feed, or a filter under a feed or
   under the global header *)
Header(text) == [kind |-> "header", under |-> 0, id |-> 0, text |-> text]
FeedLine(feed) == [kind |-> "feed", under |-> 0, id |-> feed, text |-> ""]
FilterLine(under, f) == [kind |-> "filter", under |-> under, id |-> f.filter_id, text |-> ""]

(* rss.Filter( filter_props ) for each item of the filter cache *)
FiltersOf(ids, feedOf) == [i \in 1..Len(ids) |-> [filter_id |-> ids[i], feed_id |-> feedOf[i]]]

(* feed_id_index: for each feed_id that some filter carries, the filters
   that carry it, in the order of the filter dict *)
feed_id_index(rssfilters) ==
    [f \in {rssfilters[i].feed_id : i \in 1..Len(rssfilters)} |->
        SelectSeq(rssfilters, LAMBDA x : x.feed_id = f)]

FilterLines(under, group) == [i \in 1..Len(group) |-> FilterLine(under, group[i])]

RECURSIVE PrintFeeds(_, _)
(* the loop over rssfeeds.items(): the feed, and its filters if it has any *)
PrintFeeds(rssfeeds, index) ==
    IF rssfeeds = <<>> THEN <<>>
    ELSE LET feed_id == Head(rssfeeds) IN
         <<FeedLine(feed_id)>>
             \o (IF feed_id \in DOMAIN index
                 THEN <<Header("Filters:")>> \o FilterLines(feed_id, index[feed_id])
                 ELSE <<>>)
             \o PrintFeeds(Tail(rssfeeds), index)

(* the last block: the filters of the group -1 *)
PrintGlobal(index) ==
    IF Unassigned \in DOMAIN index /\ Len(index[Unassigned]) > 0
    THEN <<Header("Global filters:")>> \o FilterLines(Unassigned, index[Unassigned])
    ELSE <<>>

(* what the action prints *)
rss_list(rssfeeds, rssfilters) ==
    LET index == feed_id_index(rssfilters) IN
    [index |-> index,
     lines |-> <<Header("Feeds:")>> \o PrintFeeds(rssfeeds, index) \o PrintGlobal(index)]

RssInit ==
    /\ platform = "posix"
    /\ instances = {"c1"}
    /\ ConnInit
    /\ CacheIdle
    /\ \E feeds \in FeedDictsListed, ids \in DistinctSeqs(FilterIds) :
          \E feedOf \in [1..Len(ids) -> FilterFeedIds] :
              arg = [rssfeeds |-> feeds, rssfilters |-> FiltersOf(ids, feedOf)]
    /\ res = NoValue

RssList ==
    /\ res = NoValue
    /\ res' = [t |-> "listed", r |-> rss_list(arg.rssfeeds, arg.rssfilters)]
    /\ UNCHANGED <<arg, connVars, cacheVars>>

RssNext == RssList

SpecRss == RssInit /\ [][RssNext]_vars

Listed == res # NoValue /\ res.t = "listed"
(* the lines that show filter f, and the groups that hold it *)
ShownAt(f) ==
    {i \in 1..Len(res.r.lines) :
        res.r.lines[i].kind = "filter" /\ res.r.lines[i].id = f.filter_id}
GroupsOf(f) ==
    {g \in DOMAIN res.r.index :
        \E i \in 1..Len(res.r.index[g]) : res.r.index[g][i] = f}
FiltersHeld == {arg.rssfilters[i] : i \in 1..Len(arg.rssfilters)}

(* C37: every filter of the filter cache is in exactly one group, that of
   its feed_id, and is shown exactly once, under its feed_id: under that
   feed, or under the global header if the feed_id is -1. *)
C37_EveryFilterShownOnce ==
    Listed =>
        \A f \in FiltersHeld :
            /\ GroupsOf(f) = {f.feed_id}
            /\ Cardinality(ShownAt(f)) = 1
            /\ \A i \in ShownAt(f) : res.r.lines[i].under = f.feed_id

(* C37, as far as the code goes: every filter is in exactly one group; it is
   shown once, under its feed_id, if that is -1 or the id of a listed feed,
   and not at all otherwise *)
C37_ShownOnceIfFeedListed ==
    Listed =>
        \A f \in FiltersHeld :
            /\ GroupsOf(f) = {f.feed_id}
            /\ \A i \in ShownAt(f) : res.r.lines[i].under = f.feed_id
            /\ Cardinality(ShownAt(f)) =
                  IF f.feed_id = Unassigned
                        \/ \E i \in 1..Len(arg.rssfeeds) : arg.rssfeeds[i] = f.feed_id
                  THEN 1 ELSE 0
====
